---- MODULE Spec2Model ----
(***************************************************************************)
(* A model of WardhaDistrictCourtScraper                                   *)
(* (src/scraper/fetch_wardha_case_data.py): endpoint resolution, the       *)
(* obstacle check, strategy generation, the submission loop and response   *)
(* parsing, with the remote site as a nondeterministic environment.        *)
(***************************************************************************)
EXTENDS Integers, Sequences, FiniteSets, TLC

(***************************************************************************)
(* Bounds of the model.                                                    *)
(***************************************************************************)
\* how many entries of search_urls are modelled (the source lists 10)
NumUrls == 2
\* how many entries of form_variations are modelled (the source lists 7)
NumStrategies == 2
\* how many direct calls of _find_working_url one instance receives
MaxCalls == 3
\* how many structural CAPTCHA signals one document matches at most
MaxSignals == 2
\* how many table rows a response document given to the extraction holds
MaxRows == 2
\* how many document links a response document holds at most
MaxLinks == 11
\* how many hidden inputs a search page given to _prepare_form_data holds
MaxHidden == 2

(***************************************************************************)
(* Values.                                                                 *)
(***************************************************************************)
\* Python's None for a URL; URLs are positions in search_urls
None == 0

\* Python's None where a date string is expected; a date string is the
\* sequence of its characters
NoDate == <<"None">>

\* self.search_urls, in list order
search_urls == 1..NumUrls

\* len(response.content) > 1000
MinContentLength == 1000
\* valid_count >= 3
MinValidIndicators == 3

valid_indicators ==
    {"case", "court", "wardha", "district", "ecourts", "case status",
     "case number", "filing", "petitioner", "maharashtra", "judicial", "search"}

\* str.lower() on the phrases documents are built from
Lower(s) ==
    CASE s = "Case Status"       -> "case status"
      [] s = "District Court"    -> "district court"
      [] s = "Wardha"            -> "wardha"
      [] s = "Search"            -> "search"
      [] s = "eCourts"           -> "ecourts"
      [] s = "No Record Found"   -> "no record found"
      [] s = "Enter CAPTCHA"     -> "enter captcha"
      [] s = "Security Code"     -> "security code"
      [] s = "Petitioner"        -> "petitioner"
      [] s = "Respondent"        -> "respondent"
      [] s = "Case Stage"        -> "case stage"
      [] s = "Judge"             -> "judge"
      [] s = "TEXT/HTML"         -> "text/html"
      [] s = "text/html; charset=UTF-8" -> "text/html; charset=utf-8"
      [] s = "RCS 123/2023"      -> "rcs 123/2023"
      [] s = "RECORD NOT FOUND"  -> "record not found"
      [] s = "Applicant"         -> "applicant"
      [] s = "Defendant"         -> "defendant"
      [] s = "Date"              -> "date"
      [] s = "Order"             -> "order"
      [] s = "Judgment"          -> "judgment"
      [] s = "Order dated 15-03-2023" -> "order dated 15-03-2023"
      [] s = "Order Interim order passed" -> "order interim order passed"
      [] s = "Order Notice issued on 2023/04/01" -> "order notice issued on 2023/04/01"
      [] s = "Date 15-03-2023"   -> "date 15-03-2023"
      [] s = "Hearing on 01.04.2023" -> "hearing on 01.04.2023"
      [] s = "Petitioner Ramesh Kumar" -> "petitioner ramesh kumar"
      [] s = "Next Hearing Date" -> "next hearing date"
      [] s = "Next Hearing Date 01.04.2023" -> "next hearing date 01.04.2023"
      [] OTHER                   -> s

\* the keywords k with `k in s` (substring) for a lower-case phrase s
Substrings(s) ==
    CASE s = "case status"       -> {"case", "case status", "status"}
      [] s = "district court"    -> {"district", "court", "district court"}
      [] s = "wardha"            -> {"wardha"}
      [] s = "search"            -> {"search"}
      [] s = "ecourts"           -> {"ecourts", "court"}
      [] s = "no record found"   -> {"no record found", "record"}
      [] s = "enter captcha"     -> {"captcha"}
      [] s = "security code"     -> {"security code"}
      [] s = "petitioner"        -> {"petitioner"}
      [] s = "respondent"        -> {"respondent"}
      [] s = "case stage"        -> {"case", "stage"}
      [] s = "judge"             -> {"judge"}
      [] s = "text/html"         -> {"html"}
      [] s = "text/html; charset=utf-8" -> {"html"}
      [] s = "rcs 123/2023"      -> {"123", "2023"}
      [] s = "record not found"  -> {"record not found", "record"}
      [] s = "applicant"         -> {"applicant"}
      [] s = "defendant"         -> {"defendant"}
      [] s = "date"              -> {"date"}
      [] s = "order"             -> {"order"}
      [] s = "judgment"          -> {"judgment"}
      [] s = "order dated 15-03-2023" -> {"order", "date", "2023"}
      [] s = "order interim order passed" -> {"order"}
      [] s = "order notice issued on 2023/04/01" -> {"order", "notice", "2023"}
      [] s = "date 15-03-2023"   -> {"date", "2023"}
      [] s = "hearing on 01.04.2023" -> {"hearing", "2023"}
      [] s = "petitioner ramesh kumar" -> {"petitioner"}
      [] s = "next hearing date" -> {"next", "hearing", "date"}
      [] s = "next hearing date 01.04.2023" -> {"next", "hearing", "date", "2023"}
      [] OTHER                   -> {}

\* len(s) of the texts of links, table rows and list items
StrLen(s) ==
    CASE s = ""                             -> 0
      [] s = "Judgment"                     -> 8
      [] s = "Date 15-03-2023"              -> 15
      [] s = "Hearing on 01.04.2023"        -> 21
      [] s = "Order dated 15-03-2023"       -> 22
      [] s = "Petitioner Ramesh Kumar"      -> 23
      [] s = "Order Interim order passed"   -> 26
      [] s = "Next Hearing Date 01.04.2023" -> 28
      [] s = "Order Notice issued on 2023/04/01" -> 33
      [] OTHER                              -> 7

\* the characters of a string that stands where a date is expected
Chars(s) ==
    CASE s = ""           -> <<>>
      [] s = "15-03-2023" -> <<"1", "5", "-", "0", "3", "-", "2", "0", "2", "3">>
      [] s = "01.04.2023" -> <<"0", "1", ".", "0", "4", ".", "2", "0", "2", "3">>
      [] s = "2023/04/01" -> <<"2", "0", "2", "3", "/", "0", "4", "/", "0", "1">>
      [] OTHER            -> <<s>>

\* re.search of the two date patterns in s, the day-first pattern
\* \d{1,2}[-/\.]\d{1,2}[-/\.]\d{4} before the year-first one: group(1), or ""
DateMatch(s) ==
    CASE s = "Order dated 15-03-2023"            -> "15-03-2023"
      [] s = "Date 15-03-2023"                   -> "15-03-2023"
      [] s = "Hearing on 01.04.2023"             -> "01.04.2023"
      [] s = "Order Notice issued on 2023/04/01" -> "2023/04/01"
      [] s = "15-03-2023"                        -> "15-03-2023"
      [] s = "Next Hearing Date 01.04.2023"      -> "01.04.2023"
      [] OTHER                                   -> ""

\* ' '.join([cell.get_text(strip=True) for cell in cells]) of a two-cell row
JoinCells(row) ==
    CASE row = <<"Order", "Interim order passed">> -> "Order Interim order passed"
      [] row = <<"Order", "Notice issued on 2023/04/01">> -> "Order Notice issued on 2023/04/01"
      [] row = <<"Date", "15-03-2023">>            -> "Date 15-03-2023"
      [] row = <<"Petitioner", "Ramesh Kumar">>    -> "Petitioner Ramesh Kumar"
      [] row = <<"Next Hearing Date", "01.04.2023">> -> "Next Hearing Date 01.04.2023"
      [] OTHER                                     -> row[1]

\* `k in text.lower()` where text is the set of phrases of a page
InTextLower(k, text) == \E p \in text : k \in Substrings(Lower(p))

(***************************************************************************)
(* Documents and HTTP responses.                                           *)
(*   selectors: the CSS selectors of captcha_indicators that match         *)
(*   markup:    phrases that occur only inside tags and attributes         *)
(*   text:      phrases of the visible text (soup.get_text())              *)
(*   rows:      the two-cell table rows, <<label, value>>                  *)
(*   hidden:    the hidden inputs in document order, <<name, value>>       *)
(*   long:      len(page_text.strip()) > 500                               *)
(*   links:     the anchors whose href holds ".pdf", in document order:    *)
(*              href, link text, text of the parent element                *)
(*   items:     the li, p and div items of the order-like containers, in   *)
(*              document order: text, href of a ".pdf" anchor inside or "" *)
(*   malformed: building or reading the parse tree raises (markup nested   *)
(*              deeper than the parser's recursion allows)                 *)
(***************************************************************************)
SelectorOrder ==
    <<"image", "input", "div", "recaptcha", "recaptcha_iframe",
      "recaptcha_script", "input_placeholder">>

SelectorTypes == {SelectorOrder[i] : i \in 1..Len(SelectorOrder)}

MkDoc(sel, markup, text, rows, forms, hidden, long) ==
    [selectors |-> sel, markup |-> markup, text |-> text, rows |-> rows,
     forms |-> forms, hidden |-> hidden, long |-> long,
     links |-> <<>>, items |-> <<>>, malformed |-> FALSE]

EmptyDoc == MkDoc({}, {}, {}, <<>>, 0, <<>>, FALSE)

\* a page of the court site with a search form
CourtPage == MkDoc({}, {}, {"Case Status", "District Court", "Wardha"}, <<>>,
                   1, << <<"__VIEWSTATE", "dDwt">> >>, TRUE)

\* a page with fewer than three keyword signals
OtherPage == MkDoc({}, {}, {"Search", "Wardha"}, <<>>, 1, <<>>, TRUE)

\* response.text: the markup and the visible text
RawText(doc) == doc.markup \cup doc.text

MkResponse(exc, status, length, ctype, doc) ==
    [exc |-> exc, status_code |-> status, content_length |-> length,
     content_type |-> ctype, doc |-> doc]

\* requests.exceptions.RequestException (timeout, connection error)
RequestError == MkResponse("request", 0, 0, "", EmptyDoc)
\* any other exception raised while the request is handled
OtherError == MkResponse("other", 0, 0, "", EmptyDoc)

\* what a probed candidate may answer
ProbeResponses ==
    { RequestError,
      MkResponse("none", 404, 5000, "text/html; charset=UTF-8", OtherPage),
      MkResponse("none", 200, 800, "text/html; charset=UTF-8", CourtPage),
      MkResponse("none", 200, 5000, "application/json", CourtPage),
      MkResponse("none", 200, 5000, "text/html; charset=UTF-8", OtherPage),
      MkResponse("none", 200, 5000, "TEXT/HTML", CourtPage) }

(***************************************************************************)
(* State.                                                                  *)
(***************************************************************************)
VARIABLES
    working_url,        \* self.working_url
    debug_info,         \* self.debug_info
    last_raw_response,  \* self.last_raw_response
    pc,                 \* position of the running call
    caller,             \* who called _find_working_url: "direct" or "fetch"
    url_i,              \* position of `for url in self.search_urls`
    form_data,          \* form_data_list of _attempt_search_submissions
    idx,                \* position of `for idx, form_data in enumerate(...)`
    mi,                 \* position of `for method_info in methods_to_try`
    attempt_info,       \* attempt_info of the current strategy
    result,             \* the value fetch_case_data returned
    returns,            \* history: what each direct call of _find_working_url
                        \* returned, and the number of requests issued by then
    requests,           \* history: the HTTP requests issued, in order
    probes,             \* history: the response each probe of the current
                        \* run of the loop of _find_working_url received
    arg,                \* the argument of a call of one of the helper
                        \* methods on its own (a document, a date string)
    ret,                \* what that call returned
    handler,            \* the requests the web layer is handling: for each,
                        \* the position and the locals of search_case
    scrapers            \* the WardhaDistrictCourtScraper instances the web
                        \* layer constructed, in order

vars == <<working_url, debug_info, last_raw_response, pc, caller, url_i,
          form_data, idx, mi, attempt_info, result, returns, requests,
          probes, arg, ret, handler, scrapers>>

\* no helper method was called on its own
NoCall == [fn |-> "None"]

\* self.debug_info = {}: `keys` are the keys the dict holds
EmptyDebugInfo ==
    [keys |-> {}, tested_urls |-> <<>>, steps |-> <<>>, working_url |-> None,
     forms_found |-> 0, hidden_fields_extracted |-> {}, form_strategies |-> 0,
     submission_attempts |-> <<>>]

NoCaptchaInfo == [has_captcha |-> FALSE, captcha_type |-> "None",
                  captcha_elements |-> <<>>]

NoRecord ==
    [petitioner |-> <<>>, respondent |-> <<>>, filing_date |-> NoDate,
     next_hearing_date |-> NoDate, status |-> "None", stage |-> "None",
     judge |-> "None", orders |-> <<>>, note |-> "None"]

\* a returned dict: `keys` are the keys it holds; error = "" without 'error'
MkOutcome(keys, error, dbg, captcha, attempted, record) ==
    [keys |-> keys, error |-> error, debug_info |-> dbg,
     captcha_info |-> captcha, strategies_attempted |-> attempted,
     record |-> record]

NoOutcome == MkOutcome({}, "", EmptyDebugInfo, NoCaptchaInfo, 0, NoRecord)

NoAttempt == [strategy |-> 0, form_fields |-> {}, method |-> "None",
              endpoint |-> "None", has_response_info |-> FALSE,
              parse_result |-> "None", result |-> "None"]

\* the state after WardhaDistrictCourtScraper()
InitObject ==
    /\ working_url = None
    /\ debug_info = EmptyDebugInfo
    /\ last_raw_response = EmptyDoc
    /\ pc = "idle"
    /\ caller = "none"
    /\ url_i = 0
    /\ form_data = <<>>
    /\ idx = 0
    /\ mi = 0
    /\ attempt_info = NoAttempt
    /\ result = NoOutcome
    /\ returns = <<>>
    /\ requests = <<>>
    /\ probes = <<>>

Init ==
    /\ InitObject
    /\ handler = <<>>
    /\ scrapers = <<>>
    /\ arg = NoCall
    /\ ret = NoCall

(***************************************************************************)
(* _find_working_url                                                       *)
(***************************************************************************)
\* valid_count = sum(1 for indicator in valid_indicators if indicator in content_lower)
ValidCount(resp) ==
    Cardinality({k \in valid_indicators : InTextLower(k, RawText(resp.doc))})

\* 'html' in response.headers.get('content-type', '').lower()
IsHtml(resp) == "html" \in Substrings(Lower(resp.content_type))

IsValidCourtPage_nolength(resp) ==
    /\ IsHtml(resp)
    /\ ValidCount(resp) >= MinValidIndicators

\* the content validation of a 200 response
IsValidCourtPage(resp) ==
    /\ resp.content_length > MinContentLength
    /\ IsHtml(resp)
    /\ ValidCount(resp) >= MinValidIndicators

\* url_test_info, and the entry of the except branch
TestInfo(url, resp, selected) ==
    [url |-> url,
     error |-> resp.exc # "none",
     status_code |-> resp.status_code,
     content_length |-> resp.content_length,
     content_type |-> resp.content_type,
     success |-> (resp.exc = "none" /\ resp.status_code = 200),
     selected |-> selected,
     valid_indicators |-> IF resp.exc = "none" /\ resp.status_code = 200
                          THEN ValidCount(resp) ELSE 0]

\* `if self.working_url: return self.working_url`
HasCachedUrl_never == FALSE

HasCachedUrl == working_url # None

\* an entry of the request history: ok = a 200 response came back, doc = its
\* document (kept for the page load and the submissions)
MkRequest(kind, url, strategy, m, ok, doc) ==
    [kind |-> kind, url |-> url, strategy |-> strategy, mi |-> m, ok |-> ok,
     doc |-> doc]

ProbeRequest(url) == MkRequest("probe", url, 0, 0, FALSE, EmptyDoc)

\* the return of _find_working_url to its caller: a direct caller keeps the
\* value; fetch_case_data goes on with lines 148-156
FindReturns(url, dbg, reqs) ==
    IF caller = "direct"
    THEN /\ returns' = Append(returns, [url |-> url, upto |-> Len(reqs)])
         /\ debug_info' = dbg
         /\ pc' = "idle"
         /\ result' = result
    ELSE /\ returns' = returns
         /\ IF url = None
            THEN /\ debug_info' = dbg
                 /\ result' = MkOutcome({"error", "details", "debug_info"},
                        "Wardha District Court website is currently not accessible",
                        dbg, NoCaptchaInfo, 0, NoRecord)
                 /\ pc' = "done"
            ELSE /\ debug_info' =
                        [dbg EXCEPT !.keys = @ \cup {"working_url"},
                                    !.working_url = url,
                                    !.steps = Append(@, "Found working Wardha District Court URL")]
                 /\ result' = result
                 /\ pc' = "load"

\* a direct call (test_connection, get_supported_case_types): lines 72-75
CallFind ==
    /\ pc = "idle"
    /\ Len(returns) < MaxCalls
    /\ caller' = "direct"
    /\ IF HasCachedUrl
       THEN /\ returns' = Append(returns, [url |-> working_url,
                                             upto |-> Len(requests)])
            /\ UNCHANGED <<debug_info, pc, url_i, probes>>
       ELSE /\ debug_info' = [debug_info EXCEPT !.keys = @ \cup {"tested_urls"},
                                                !.tested_urls = <<>>]
            /\ url_i' = 1
            /\ pc' = "probing"
            /\ probes' = <<>>
            /\ UNCHANGED returns
    /\ UNCHANGED <<working_url, last_raw_response, form_data, idx, mi,
                   attempt_info, result, requests, arg, ret, handler, scrapers>>

ProbeFrame ==
    UNCHANGED <<last_raw_response, caller, form_data, idx, mi, attempt_info,
                arg, ret, handler, scrapers>>

\* after the last candidate: `return None` (line 127)
AfterProbe(next_i, dbg) ==
    IF next_i > NumUrls
    THEN FindReturns(None, dbg, requests')
    ELSE /\ debug_info' = dbg
         /\ pc' = pc
         /\ UNCHANGED <<returns, result>>

ProbeError_abort ==
    /\ pc = "probing"
    /\ url_i <= NumUrls
    /\ \E resp \in ProbeResponses :
        /\ resp.exc # "none"
        /\ requests' = Append(requests, ProbeRequest(url_i))
        /\ probes' = Append(probes, [url |-> url_i, resp |-> resp])
        /\ url_i' = NumUrls + 1
        /\ FindReturns(None,
              [debug_info EXCEPT !.tested_urls =
                    Append(@, TestInfo(url_i, resp, FALSE))], requests')
    /\ UNCHANGED working_url
    /\ ProbeFrame

ProbeError_nolog ==
    /\ pc = "probing"
    /\ url_i <= NumUrls
    /\ \E resp \in ProbeResponses :
        /\ resp.exc # "none"
        /\ requests' = Append(requests, ProbeRequest(url_i))
        /\ probes' = Append(probes, [url |-> url_i, resp |-> resp])
        /\ url_i' = url_i + 1
        /\ AfterProbe(url_i + 1, debug_info)
    /\ UNCHANGED working_url
    /\ ProbeFrame

\* the GET raises: lines 117-124
ProbeError ==
    /\ pc = "probing"
    /\ url_i <= NumUrls
    /\ \E resp \in ProbeResponses :
        /\ resp.exc # "none"
        /\ requests' = Append(requests, ProbeRequest(url_i))
        /\ probes' = Append(probes, [url |-> url_i, resp |-> resp])
        /\ url_i' = url_i + 1
        /\ AfterProbe(url_i + 1,
              [debug_info EXCEPT !.tested_urls =
                    Append(@, TestInfo(url_i, resp, FALSE))])
    /\ UNCHANGED working_url
    /\ ProbeFrame

\* a response that is not selected: lines 91, 112-115
ProbeRejected ==
    /\ pc = "probing"
    /\ url_i <= NumUrls
    /\ \E resp \in ProbeResponses :
        /\ resp.exc = "none"
        /\ ~(resp.status_code = 200 /\ IsValidCourtPage(resp))
        /\ requests' = Append(requests, ProbeRequest(url_i))
        /\ probes' = Append(probes, [url |-> url_i, resp |-> resp])
        /\ url_i' = url_i + 1
        /\ AfterProbe(url_i + 1,
              [debug_info EXCEPT !.tested_urls =
                    Append(@, TestInfo(url_i, resp, FALSE))])
    /\ UNCHANGED working_url
    /\ ProbeFrame

\* a 200 response that passes the validation: lines 102-111
ProbeSelected ==
    /\ pc = "probing"
    /\ url_i <= NumUrls
    /\ \E resp \in ProbeResponses :
        /\ resp.exc = "none"
        /\ resp.status_code = 200
        /\ IsValidCourtPage(resp)
        /\ requests' = Append(requests, ProbeRequest(url_i))
        /\ probes' = Append(probes, [url |-> url_i, resp |-> resp])
        /\ working_url' = url_i
        /\ url_i' = url_i
        /\ FindReturns(url_i,
              [debug_info EXCEPT !.tested_urls =
                    Append(@, TestInfo(url_i, resp, TRUE))], requests')
    /\ ProbeFrame

(***************************************************************************)
(* The query.                                                              *)
(***************************************************************************)
Query == [case_type |-> "RCS", case_number |-> "123", filing_year |-> 2023]

\* str(filing_year)
Str(n) == IF n = 2023 THEN "2023" ELSE "0"

(***************************************************************************)
(* _check_captcha                                                          *)
(***************************************************************************)
\* captcha_indicators, by the 'type' of each entry
captcha_indicators == SelectorOrder

\* `for indicator in captcha_indicators` (lines 258-267), from entry i on
RECURSIVE CaptchaLoop(_, _, _)
CaptchaLoop(doc, i, info) ==
    IF i > Len(captcha_indicators) THEN info
    ELSE CaptchaLoop(doc, i + 1,
            IF captcha_indicators[i] \in doc.selectors
            THEN [has_captcha |-> TRUE,
                  captcha_type |-> captcha_indicators[i],
                  captcha_elements |-> Append(info.captcha_elements,
                                              captcha_indicators[i])]
            ELSE info)

captcha_words == {"captcha", "verification code", "security code"}

_check_captcha(doc) ==
    LET info == CaptchaLoop(doc, 1, NoCaptchaInfo)
    IN  IF \E w \in captcha_words : InTextLower(w, doc.text)
        THEN [info EXCEPT !.has_captcha = TRUE,
                          !.captcha_type = IF info.captcha_type = "None"
                                           THEN "text_based" ELSE @]
        ELSE info

(***************************************************************************)
(* _extract_hidden_fields and _prepare_form_data                           *)
(***************************************************************************)
\* a dict literal or a sequence of assignments: the last value of a key stays
DictOf(pairs) ==
    [k \in {pairs[i][1] : i \in 1..Len(pairs)} |->
        LET last == CHOOSE i \in 1..Len(pairs) :
                        /\ pairs[i][1] = k
                        /\ \A j \in 1..Len(pairs) : pairs[j][1] = k => j <= i
        IN  pairs[last][2]]

\* dict.update
Update(a, b) ==
    [k \in DOMAIN a \cup DOMAIN b |-> IF k \in DOMAIN b THEN b[k] ELSE a[k]]

hidden_field_names ==
    <<"__VIEWSTATE", "__VIEWSTATEGENERATOR", "__EVENTVALIDATION",
      "__EVENTTARGET", "__EVENTARGUMENT", "__LASTFOCUS",
      "__VIEWSTATEENCRYPTED", "__PREVIOUSPAGE", "__SCROLLPOSITIONX",
      "__SCROLLPOSITIONY", "javax.faces.ViewState", "authenticity_token",
      "csrf_token", "_token", "session_id", "form_token">>

\* soup.find('input', {'name': n, 'type': 'hidden'}): position of the first, or 0
FindHidden(hidden, n) ==
    IF \E i \in 1..Len(hidden) : hidden[i][1] = n
    THEN CHOOSE i \in 1..Len(hidden) :
            /\ hidden[i][1] = n
            /\ \A j \in 1..(i - 1) : hidden[j][1] # n
    ELSE 0

\* lines 438-442, from name i on
RECURSIVE HiddenByName(_, _, _)
HiddenByName(hidden, i, fields) ==
    IF i > Len(hidden_field_names) THEN fields
    ELSE LET n == hidden_field_names[i]
             e == FindHidden(hidden, n)
         IN  HiddenByName(hidden, i + 1,
                IF e # 0 /\ hidden[e][2] # ""
                THEN Update(fields, DictOf(<< <<n, hidden[e][2]>> >>))
                ELSE fields)

\* lines 445-450, from input i on
RECURSIVE HiddenAll(_, _, _)
HiddenAll(hidden, i, fields) ==
    IF i > Len(hidden) THEN fields
    ELSE HiddenAll(hidden, i + 1,
            IF hidden[i][1] # "" /\ hidden[i][1] \notin DOMAIN fields
            THEN Update(fields, DictOf(<< hidden[i] >>))
            ELSE fields)

_extract_hidden_fields(doc) ==
    HiddenAll(doc.hidden, 1, HiddenByName(doc.hidden, 1, DictOf(<<>>)))

form_variations(q) ==
    << DictOf(<< <<"case_type", q.case_type>>, <<"case_no", q.case_number>>,
                 <<"case_year", Str(q.filing_year)>>, <<"submit", "Submit">>,
                 <<"court_code", "wardha">> >>),
       DictOf(<< <<"casetype", q.case_type>>, <<"caseno", q.case_number>>,
                 <<"caseyear", Str(q.filing_year)>>, <<"Submit", "Search">>,
                 <<"district", "Wardha">> >>),
       DictOf(<< <<"txtCaseType", q.case_type>>, <<"txtCaseNo", q.case_number>>,
                 <<"txtYear", Str(q.filing_year)>>, <<"btnSearch", "Search">>,
                 <<"ddlDistrict", "Wardha">> >>),
       DictOf(<< <<"ddlCaseType", q.case_type>>, <<"txtCaseNumber", q.case_number>>,
                 <<"ddlYear", Str(q.filing_year)>>, <<"Button1", "Submit">>,
                 <<"ddlCourt", "District Court Wardha">> >>),
       DictOf(<< <<"case_type_name", q.case_type>>, <<"case_number", q.case_number>>,
                 <<"filing_year", Str(q.filing_year)>>,
                 <<"search_button", "Get Case Status">>,
                 <<"state_code", "27">>, <<"district_code", "664">> >>),
       DictOf(<< <<"type", q.case_type>>, <<"number", q.case_number>>,
                 <<"year", Str(q.filing_year)>>, <<"action", "search">> >>),
       DictOf(<< <<"caseType", q.case_type>>, <<"caseNumber", q.case_number>>,
                 <<"filingYear", Str(q.filing_year)>>,
                 <<"searchType", "case_number">>, <<"format", "html">> >>) >>

\* enhanced_variations: lines 414-419
enhanced_variations(doc, q) ==
    LET hidden_fields == _extract_hidden_fields(doc)
    IN  [i \in 1..Len(form_variations(q)) |->
            Update(form_variations(q)[i], hidden_fields)]

\* enhanced_variations, the first NumStrategies of them
_prepare_form_data(doc, q) ==
    [i \in 1..NumStrategies |-> enhanced_variations(doc, q)[i]]

(***************************************************************************)
(* _parse_date.  A date string is the sequence of its characters; the      *)
(* result is a sequence of characters too, or NoDate for Python's None.    *)
(***************************************************************************)
DigitChars == <<"0", "1", "2", "3", "4", "5", "6", "7", "8", "9">>

IsDigit(c) == \E i \in 1..Len(DigitChars) : DigitChars[i] = c

\* int(c) of one digit
DigitVal(c) == (CHOOSE i \in 1..Len(DigitChars) : DigitChars[i] = c) - 1

\* int(ds) of a run of digits
RECURSIVE IntOf(_)
IntOf(ds) ==
    IF ds = <<>> THEN 0
    ELSE 10 * IntOf(SubSeq(ds, 1, Len(ds) - 1)) + DigitVal(ds[Len(ds)])

\* str.isspace() of one character
IsSpace(c) == c \in {" ", "\t", "\n", "\r"}

RECURSIVE LStrip(_)
LStrip(s) == IF s # <<>> /\ IsSpace(Head(s)) THEN LStrip(Tail(s)) ELSE s

RECURSIVE RStrip(_)
RStrip(s) ==
    IF s # <<>> /\ IsSpace(s[Len(s)])
    THEN RStrip(SubSeq(s, 1, Len(s) - 1)) ELSE s

\* str.strip()
Strip(s) == RStrip(LStrip(s))

UpperLetters ==
    <<"A", "B", "C", "D", "E", "F", "G", "H", "I", "J", "K", "L", "M",
      "N", "O", "P", "Q", "R", "S", "T", "U", "V", "W", "X", "Y", "Z">>
LowerLetters ==
    <<"a", "b", "c", "d", "e", "f", "g", "h", "i", "j", "k", "l", "m",
      "n", "o", "p", "q", "r", "s", "t", "u", "v", "w", "x", "y", "z">>

\* re.IGNORECASE on one character
LowerChar(c) ==
    IF \E i \in 1..Len(UpperLetters) : UpperLetters[i] = c
    THEN LowerLetters[CHOOSE i \in 1..Len(UpperLetters) : UpperLetters[i] = c]
    ELSE c

\* calendar.month_name[1:], lower-case (the C locale)
month_name ==
    << <<"j","a","n","u","a","r","y">>, <<"f","e","b","r","u","a","r","y">>,
       <<"m","a","r","c","h">>, <<"a","p","r","i","l">>, <<"m","a","y">>,
       <<"j","u","n","e">>, <<"j","u","l","y">>, <<"a","u","g","u","s","t">>,
       <<"s","e","p","t","e","m","b","e","r">>, <<"o","c","t","o","b","e","r">>,
       <<"n","o","v","e","m","b","e","r">>, <<"d","e","c","e","m","b","e","r">> >>

\* calendar.month_abbr[1:], lower-case
month_abbr == [i \in 1..Len(month_name) |-> SubSeq(month_name[i], 1, 3)]

\* date_formats (lines 900-909): a format is the sequence of its directives
\* and literal characters
date_formats ==
    << <<"%d", "-", "%m", "-", "%Y">>, <<"%d", "/", "%m", "/", "%Y">>,
       <<"%Y", "-", "%m", "-", "%d">>, <<"%Y", "/", "%m", "/", "%d">>,
       <<"%d", "-", "%m", "-", "%y">>, <<"%d", "/", "%m", "/", "%y">>,
       <<"%y", "-", "%m", "-", "%d">>, <<"%y", "/", "%m", "/", "%d">>,
       <<"%d", ".", "%m", ".", "%Y">>, <<"%d", ".", "%m", ".", "%y">>,
       <<"%Y", ".", "%m", ".", "%d">>,
       <<"%d", " ", "%m", " ", "%Y">>, <<"%d", " ", "%m", " ", "%y">>,
       <<"%Y", " ", "%m", " ", "%d">>,
       <<"%B", " ", "%d", ",", " ", "%Y">>, <<"%b", " ", "%d", ",", " ", "%Y">>,
       <<"%d", " ", "%B", " ", "%Y">>, <<"%d", " ", "%b", " ", "%Y">>,
       <<"%B", " ", "%d", " ", "%Y">>, <<"%b", " ", "%d", " ", "%Y">>,
       <<"%d", "-", "%m", "-", "%Y">>, <<"%d", "/", "%m", "/", "%Y">> >>

\* the plausible years of lines 915 and 935
MinYear == 1950
MaxYear == 2030

\* s[pos .. pos+n-1] are n digits
DigitsAt(s, pos, n) ==
    /\ pos + n - 1 <= Len(s)
    /\ \A i \in pos..(pos + n - 1) : IsDigit(s[i])

\* how many characters strptime's pattern of %d, 3[0-1]|[1-2]\d|0[1-9]|[1-9],
\* takes at pos (0: no match); its last alternative, a blank and a digit,
\* never applies to a stripped string whose blanks the format's \s+ takes
DayWidth(s, pos) ==
    IF DigitsAt(s, pos, 2) /\ IntOf(SubSeq(s, pos, pos + 1)) \in 1..31 THEN 2
    ELSE IF DigitsAt(s, pos, 1) /\ DigitVal(s[pos]) \in 1..9 THEN 1
    ELSE 0

\* the pattern of %m: 1[0-2]|0[1-9]|[1-9]
MonthWidth(s, pos) ==
    IF DigitsAt(s, pos, 2) /\ IntOf(SubSeq(s, pos, pos + 1)) \in 1..12 THEN 2
    ELSE IF DigitsAt(s, pos, 1) /\ DigitVal(s[pos]) \in 1..9 THEN 1
    ELSE 0

\* the month whose name stands at pos, whatever the letter case (0: none)
MonthAt(names, s, pos) ==
    LET fits(i) == /\ pos + Len(names[i]) - 1 <= Len(s)
                   /\ \A j \in 1..Len(names[i]) :
                        LowerChar(s[pos + j - 1]) = names[i][j]
    IN  IF \E i \in 1..Len(names) : fits(i)
        THEN CHOOSE i \in 1..Len(names) : fits(i) ELSE 0

\* the length of the run of blanks at pos: \s+ for a blank of the format
RECURSIVE SpaceRun(_, _)
SpaceRun(s, pos) ==
    IF pos <= Len(s) /\ IsSpace(s[pos]) THEN 1 + SpaceRun(s, pos + 1) ELSE 0

NoMatch == [ok |-> FALSE, day |-> 0, month |-> 0, year |-> 0]

\* the match of the format's pattern from directive k on; the whole string
\* must be consumed ("unconverted data remains")
RECURSIVE Scan(_, _, _, _, _)
Scan(s, pos, fmt, k, acc) ==
    IF k > Len(fmt) THEN (IF pos = Len(s) + 1 THEN acc ELSE NoMatch)
    ELSE CASE fmt[k] = "%d" ->
                LET n == DayWidth(s, pos)
                IN  IF n = 0 THEN NoMatch
                    ELSE Scan(s, pos + n, fmt, k + 1,
                              [acc EXCEPT !.day = IntOf(SubSeq(s, pos, pos + n - 1))])
           [] fmt[k] = "%m" ->
                LET n == MonthWidth(s, pos)
                IN  IF n = 0 THEN NoMatch
                    ELSE Scan(s, pos + n, fmt, k + 1,
                              [acc EXCEPT !.month = IntOf(SubSeq(s, pos, pos + n - 1))])
           [] fmt[k] = "%Y" ->
                IF ~DigitsAt(s, pos, 4) THEN NoMatch
                ELSE Scan(s, pos + 4, fmt, k + 1,
                          [acc EXCEPT !.year = IntOf(SubSeq(s, pos, pos + 3))])
           [] fmt[k] = "%y" ->
                IF ~DigitsAt(s, pos, 2) THEN NoMatch
                ELSE LET y == IntOf(SubSeq(s, pos, pos + 1))
                     IN  Scan(s, pos + 2, fmt, k + 1,
                              [acc EXCEPT !.year = IF y <= 68 THEN 2000 + y
                                                   ELSE 1900 + y])
           [] fmt[k] = "%B" ->
                LET i == MonthAt(month_name, s, pos)
                IN  IF i = 0 THEN NoMatch
                    ELSE Scan(s, pos + Len(month_name[i]), fmt, k + 1,
                              [acc EXCEPT !.month = i])
           [] fmt[k] = "%b" ->
                LET i == MonthAt(month_abbr, s, pos)
                IN  IF i = 0 THEN NoMatch
                    ELSE Scan(s, pos + Len(month_abbr[i]), fmt, k + 1,
                              [acc EXCEPT !.month = i])
           [] fmt[k] = " " ->
                LET n == SpaceRun(s, pos)
                IN  IF n = 0 THEN NoMatch ELSE Scan(s, pos + n, fmt, k + 1, acc)
           [] OTHER ->
                IF pos <= Len(s) /\ s[pos] = fmt[k]
                THEN Scan(s, pos + 1, fmt, k + 1, acc) ELSE NoMatch

IsLeap(y) == (y % 4 = 0 /\ y % 100 # 0) \/ y % 400 = 0

DaysInMonth(y, m) ==
    IF m = 2 THEN (IF IsLeap(y) THEN 29 ELSE 28)
    ELSE IF m \in {4, 6, 9, 11} THEN 30 ELSE 31

\* datetime.strptime(date_str, fmt): ok = FALSE for a ValueError
strptime(s, fmt) ==
    LET Checked(r) ==
            IF r.ok /\ r.year >= 1 /\ r.day <= DaysInMonth(r.year, r.month)
            THEN r ELSE NoMatch
    IN  Checked(Scan(s, 1, fmt, 1,
                     [ok |-> TRUE, day |-> 1, month |-> 1, year |-> 1900]))

\* f"{n:0wd}"
RECURSIVE ZeroPad(_, _)
ZeroPad(n, w) ==
    IF n < 10 /\ w <= 1 THEN <<DigitChars[n + 1]>>
    ELSE Append(ZeroPad(n \div 10, w - 1), DigitChars[(n % 10) + 1])

\* strftime('%Y-%m-%d'), and f"{year:04d}-{month:02d}-{day:02d}"
IsoDate(year, month, day) ==
    ZeroPad(year, 4) \o <<"-">> \o ZeroPad(month, 2) \o <<"-">> \o ZeroPad(day, 2)

\* re.findall(r'\d+', s): the runs of digits, `run` being the open one
RECURSIVE DigitRuns(_, _, _)
DigitRuns(s, pos, run) ==
    IF pos > Len(s) THEN (IF run = <<>> THEN <<>> ELSE <<run>>)
    ELSE IF IsDigit(s[pos]) THEN DigitRuns(s, pos + 1, Append(run, s[pos]))
    ELSE (IF run = <<>> THEN <<>> ELSE <<run>>) \o DigitRuns(s, pos + 1, <<>>)

\* lines 920-942: day, month, year by position
ManualDate(s) ==
    LET date_numbers == DigitRuns(s, 1, <<>>)
    IN  IF Len(date_numbers) >= 3
        THEN LET day == IntOf(date_numbers[1])
                 month == IntOf(date_numbers[2])
                 y == IntOf(date_numbers[3])
                 year == IF y < 100 THEN (IF y < 30 THEN y + 2000 ELSE y + 1900)
                         ELSE y
             IN  IF /\ 1 <= day /\ day <= 31
                    /\ 1 <= month /\ month <= 12
                    /\ MinYear <= year /\ year <= MaxYear
                 THEN IsoDate(year, month, day)
                 ELSE s
        ELSE s

\* `for fmt in date_formats` from format k on (lines 911-918)
RECURSIVE TryFormats(_, _)
TryFormats(s, k) ==
    IF k > Len(date_formats) THEN ManualDate(s)
    ELSE LET Try(parsed_date) ==
                IF /\ parsed_date.ok
                   /\ MinYear <= parsed_date.year /\ parsed_date.year <= MaxYear
                THEN IsoDate(parsed_date.year, parsed_date.month, parsed_date.day)
                ELSE TryFormats(s, k + 1)
         IN  Try(strptime(s, date_formats[k]))

_parse_date_asis(date_str) == date_str

_parse_date(date_str) ==
    IF Strip(date_str) = <<>> THEN NoDate
    ELSE TryFormats(Strip(date_str), 1)

(***************************************************************************)
(* _parse_response and the extraction it calls                             *)
(***************************************************************************)
ErrNotFound == "Case RCS 123/2023 not found in Wardha District Court"
ErrParsing == "Error parsing Wardha District Court website response"
ErrUnreachable == "Wardha District Court website is currently not accessible"
ErrCaptcha == "CAPTCHA verification required"
ErrNoForm == "Unable to find search form on Wardha District Court website"
ErrPageNotFound == "Wardha District Court case status page not found"
\* f'HTTP Error {e.response.status_code}'
ErrHttp == "HTTP Error"
ErrNetwork == "Network error accessing Wardha District Court website"
ErrUnexpected == "An unexpected error occurred while fetching case data from Wardha District Court"

\* the English entries of error_indicators
error_indicators ==
    <<"no record found", "record not found", "invalid case", "case not found",
      "no data available", "no records found", "invalid input",
      "please enter valid", "not exist", "error occurred",
      "invalid case number", "case does not exist">>

\* `any(keyword in label for keyword in kws)`, label already lower-case
AnyIn(kws, label) == \E k \in kws : k \in Substrings(label)

ExtractRow_nodedupe(cd, row) ==
    LET label == Lower(row[1])
        value == row[2]
    IN  IF value = "" THEN cd
        ELSE IF AnyIn({"petitioner", "applicant", "plaintiff"}, label)
        THEN [cd EXCEPT !.petitioner = Append(@, value)]
        ELSE IF AnyIn({"respondent", "defendant"}, label)
        THEN [cd EXCEPT !.respondent = Append(@, value)]
        ELSE cd

\* one table row of _extract_case_info: lines 634-662
ExtractRow(cd, row) ==
    LET label == Lower(row[1])
        value == row[2]
    IN  IF value = "" THEN cd
        ELSE IF AnyIn({"petitioner", "applicant", "plaintiff"}, label)
        THEN IF \E i \in 1..Len(cd.petitioner) : cd.petitioner[i] = value
             THEN cd ELSE [cd EXCEPT !.petitioner = Append(@, value)]
        ELSE IF AnyIn({"respondent", "defendant"}, label)
        THEN IF \E i \in 1..Len(cd.respondent) : cd.respondent[i] = value
             THEN cd ELSE [cd EXCEPT !.respondent = Append(@, value)]
        ELSE IF AnyIn({"filing", "date"}, label) /\ "date" \in Substrings(label)
        THEN [cd EXCEPT !.filing_date = _parse_date(Chars(value))]
        ELSE IF AnyIn({"next", "hearing", "list"}, label)
        THEN IF "date" \in Substrings(label)
             THEN [cd EXCEPT !.next_hearing_date = _parse_date(Chars(value))]
             ELSE cd
        ELSE IF AnyIn({"status", "stage"}, label)
        THEN IF "status" \in Substrings(label)
             THEN [cd EXCEPT !.status = value] ELSE [cd EXCEPT !.stage = value]
        ELSE IF AnyIn({"judge"}, label)
        THEN [cd EXCEPT !.judge = value]
        ELSE IF AnyIn({"current", "present"}, label)
        THEN IF cd.status = "None" THEN [cd EXCEPT !.status = value] ELSE cd
        ELSE cd

RECURSIVE ExtractRows(_, _, _)
ExtractRows(cd, rows, i) ==
    IF i > Len(rows) THEN cd ELSE ExtractRows(ExtractRow(cd, rows[i]), rows, i + 1)

\* urljoin(self.base_url, href) unless href starts with 'http': the base
\* ("" for an absolute href) and the href; None is NoLink
base_url == "https://wardha.dcourts.gov.in"
NoLink == <<"None", "None">>
AbsoluteHrefs == {"https://wardha.dcourts.gov.in/orders/9.pdf"}
PdfLink(href) == IF href \in AbsoluteHrefs THEN <<"", href>> ELSE <<base_url, href>>

\* the date found in a text: lines 806-810 (also 848-852, 881-885)
DateOf(text) ==
    IF DateMatch(text) # "" THEN _parse_date(Chars(DateMatch(text))) ELSE NoDate

\* one anchor: lines 783-823
LinkOrder(link) ==
    LET link_text == IF link.text = "" THEN "Wardha District Court Document"
                     ELSE link.text
    IN  [description |-> link_text,
         pdf_link |-> PdfLink(link.href),
         date |-> IF DateOf(link_text) # NoDate THEN DateOf(link_text)
                  ELSE DateOf(link.parent)]

\* `for link in pdf_links` from anchor i on
RECURSIVE LinkOrders(_, _, _)
LinkOrders(links, i, orders) ==
    IF i > Len(links) THEN orders
    ELSE LinkOrders(links, i + 1,
            IF links[i].href # "" THEN Append(orders, LinkOrder(links[i]))
            ELSE orders)

\* some order has this description
HasDescription(orders, text) ==
    \E j \in 1..Len(orders) : orders[j].description = text

\* the table rows, from row i on: lines 826-854
RECURSIVE RowOrders(_, _, _)
RowOrders(rows, i, orders) ==
    IF i > Len(rows) THEN orders
    ELSE LET first_cell == Lower(rows[i][1])
             order_text == JoinCells(rows[i])
         IN  RowOrders(rows, i + 1,
                IF /\ AnyIn({"order", "judgment", "date"}, first_cell)
                   /\ StrLen(order_text) > 20
                   /\ ~HasDescription(orders, order_text)
                   /\ AnyIn({"order", "judgment", "hearing", "notice"},
                            Lower(order_text))
                THEN Append(orders, [description |-> order_text,
                                     pdf_link |-> NoLink,
                                     date |-> DateOf(order_text)])
                ELSE orders)

\* the items of the order containers, from item i on: lines 857-888
RECURSIVE ItemOrders(_, _, _)
ItemOrders(items, i, orders) ==
    IF i > Len(items) THEN orders
    ELSE LET item_text == items[i].text
         IN  ItemOrders(items, i + 1,
                IF /\ StrLen(item_text) > 15
                   /\ AnyIn({"order", "hearing", "notice", "judgment"},
                            Lower(item_text))
                   /\ ~HasDescription(orders, item_text)
                THEN Append(orders, [description |-> item_text,
                                     pdf_link |-> IF items[i].href # ""
                                                  THEN PdfLink(items[i].href)
                                                  ELSE NoLink,
                                     date |-> DateOf(item_text)])
                ELSE orders)

\* `orders` before the truncation of line 890
MergedOrders(doc) ==
    ItemOrders(doc.items, 1, RowOrders(doc.rows, 1, LinkOrders(doc.links, 1, <<>>)))

\* orders[:10]
MaxOrders == 10

_extract_orders_untruncated(doc) == MergedOrders(doc)

_extract_orders(doc) ==
    SubSeq(MergedOrders(doc), 1,
           IF Len(MergedOrders(doc)) < MaxOrders THEN Len(MergedOrders(doc))
           ELSE MaxOrders)

_extract_case_info(doc, q) ==
    [ExtractRows(NoRecord, doc.rows, 1) EXCEPT !.orders = _extract_orders(doc)]

_is_valid_case_data_any(cd) == TRUE

_is_valid_case_data(cd) ==
    \/ cd.petitioner # <<>> \/ cd.respondent # <<>>
    \/ cd.filing_date # NoDate \/ cd.next_hearing_date # NoDate
    \/ cd.status # "None" \/ cd.stage # "None"
    \/ cd.orders # <<>>
    \/ cd.judge # "None"

legal_terms ==
    {"petitioner", "respondent", "plaintiff", "defendant", "hearing", "order",
     "judgment", "court", "case", "filing", "status"}

maharashtra_terms == {"wardha", "maharashtra", "district court"}

\* the placeholder record of _alternative_parsing, or NoRecord for None
_alternative_parsing(doc, q) ==
    IF /\ InTextLower(q.case_number, doc.text)
       /\ InTextLower(Str(q.filing_year), doc.text)
       /\ doc.long
       /\ \E t \in legal_terms \cup maharashtra_terms : InTextLower(t, doc.text)
    THEN [NoRecord EXCEPT
            !.petitioner = <<"Case information available - please check court website directly">>,
            !.respondent = <<"Detailed parsing required - manual verification recommended">>,
            !.filing_date = ZeroPad(q.filing_year, 1)
                                \o <<"-", "0", "1", "-", "0", "1">>,
            !.status = "Case found but requires detailed parsing",
            !.stage = "Information extraction in progress",
            !.note = "Partial information extracted from Wardha District Court. Please verify details on court website."]
    ELSE NoRecord

ParseError(keys) ==
    MkOutcome({"error", "message"} \cup keys, ErrNotFound, EmptyDebugInfo,
              NoCaptchaInfo, 0, NoRecord)

ParseFound(keys, cd) ==
    MkOutcome({"case_data"} \cup keys, "", EmptyDebugInfo, NoCaptchaInfo, 0, cd)

_parse_response_extractfirst(doc, q) ==
    LET case_data == _extract_case_info(doc, q)
        alternative_data == _alternative_parsing(doc, q)
    IN  IF _is_valid_case_data(case_data) THEN ParseFound({}, case_data)
        ELSE IF \E i \in 1..Len(error_indicators) :
                    InTextLower(error_indicators[i], doc.text)
        THEN ParseError({"found_error_indicator"})
        ELSE IF alternative_data # NoRecord
        THEN ParseFound({"note", "patterns_found"}, alternative_data)
        ELSE ParseError({"response_length"})

\* the dict of the except branch, lines 605-610
ParseCrashed ==
    MkOutcome({"error", "details"}, ErrParsing, EmptyDebugInfo, NoCaptchaInfo,
              0, NoRecord)

_parse_response_fallbackfirst(doc, q) ==
    IF doc.malformed THEN ParseCrashed
    ELSE IF \E i \in 1..Len(error_indicators) : InTextLower(error_indicators[i], doc.text)
    THEN ParseError({"found_error_indicator"})
    ELSE LET case_data == _extract_case_info(doc, q)
             alternative_data == _alternative_parsing(doc, q)
         IN  IF alternative_data # NoRecord
             THEN ParseFound({"note", "patterns_found"}, alternative_data)
             ELSE IF _is_valid_case_data(case_data) THEN ParseFound({}, case_data)
             ELSE ParseError({"response_length"})

_parse_response(doc, q) ==
    IF doc.malformed THEN ParseCrashed
    ELSE IF \E i \in 1..Len(error_indicators) : InTextLower(error_indicators[i], doc.text)
    THEN ParseError({"found_error_indicator"})
    ELSE LET case_data == _extract_case_info(doc, q)
             alternative_data == _alternative_parsing(doc, q)
         IN  IF _is_valid_case_data(case_data) THEN ParseFound({}, case_data)
             ELSE IF alternative_data # NoRecord
             THEN ParseFound({"note", "patterns_found"}, alternative_data)
             ELSE ParseError({"response_length"})

(***************************************************************************)
(* The remote site's answers to the page load and to the submissions.      *)
(***************************************************************************)
SignalSets == {sel \in SUBSET SelectorTypes : Cardinality(sel) <= MaxSignals}

\* the court page, with and without verification challenges, and a page
\* without a form
SearchPages ==
    { [CourtPage EXCEPT !.selectors = sel, !.text = @ \cup t] :
        sel \in SignalSets, t \in {{}, {"Enter CAPTCHA"}} }
    \cup { [CourtPage EXCEPT !.forms = 0, !.hidden = <<>>],
           [CourtPage EXCEPT !.malformed = TRUE] }

HttpError(status) == MkResponse("none", status, 300, "text/html", EmptyDoc)

LoadResponses ==
    {RequestError, OtherError, HttpError(404), HttpError(500)}
    \cup {MkResponse("none", 200, 5000, "text/html", d) : d \in SearchPages}

\* what the GET of the search page at the selected candidate may answer: the
\* server of the first candidate also answers with a status below 400 that
\* is not 200 (203 Non-Authoritative Information)
LoadResponsesAt(url) ==
    IF url = 1
    THEN LoadResponses \cup {MkResponse("none", 203, 5000, "text/html", CourtPage)}
    ELSE LoadResponses

NotFoundDoc == MkDoc({}, {}, {"No Record Found"}, <<>>, 1, <<>>, FALSE)
NothingDoc  == MkDoc({}, {}, {"Wardha"}, <<>>, 1, <<>>, FALSE)
ChallengeDoc == MkDoc({"image"}, {}, {"Enter CAPTCHA"}, <<>>, 1, <<>>, FALSE)
RecordDocA ==
    MkDoc({}, {}, {"Case Status"},
          << <<"Petitioner", "Ramesh Kumar">>,
             <<"Respondent", "State of Maharashtra">> >>, 0, <<>>, FALSE)
RecordDocB ==
    MkDoc({}, {}, {"Case Status"},
          << <<"Petitioner", "Sita Devi">>, <<"Case Status", "Pending">> >>,
          0, <<>>, FALSE)
MentionDoc ==
    MkDoc({}, {}, {"RCS 123/2023", "District Court"}, <<>>, 0, <<>>, TRUE)
MalformedDoc == [RecordDocA EXCEPT !.malformed = TRUE]
\* a long page that names the case and also holds a table of the record
MentionRecordDoc ==
    [RecordDocA EXCEPT !.text = MentionDoc.text, !.long = TRUE]

\* what a submission may answer with status 200; ChallengeDoc is also the
\* document without anything to extract
ResultDocs ==
    {NotFoundDoc, ChallengeDoc, MalformedDoc, RecordDocA, RecordDocB, MentionDoc}

\* self._parse_response(response, ...) for each of these documents
ParsedResults == [doc \in ResultDocs |-> _parse_response(doc, Query)]

\* a submission that brings no 200 response: a RequestException (timeout,
\* connection error), another exception, a non-200 status
SubmitFailures == {RequestError, OtherError, HttpError(500)}

(***************************************************************************)
(* _attempt_search_submissions and _submit_form                            *)
(***************************************************************************)
methods_to_try ==
    << [method |-> "POST", endpoint |-> ""],
       [method |-> "POST", endpoint |-> "/case-status-result"],
       [method |-> "POST", endpoint |-> "/search"],
       [method |-> "GET",  endpoint |-> ""],
       [method |-> "GET",  endpoint |-> "/case-status"] >>

\* attempt_info at the head of the strategy loop: lines 460-464
NewAttempt(i, fd) ==
    [NoAttempt EXCEPT !.strategy = i, !.form_fields = DOMAIN fd[i]]

\* attempt_info after a 200 response: lines 484-491
WithResponse(info, m) ==
    [info EXCEPT !.method = methods_to_try[m].method,
                 !.endpoint = methods_to_try[m].endpoint,
                 !.has_response_info = TRUE]

SubmitRequest(ok, doc) == MkRequest("submit", working_url, idx, mi, ok, doc)

\* lines 457-464: the entry of _attempt_search_submissions
EnterSubmissions(dbg, fd) ==
    /\ debug_info' = [dbg EXCEPT !.keys = @ \cup {"submission_attempts"},
                                 !.submission_attempts = <<>>]
    /\ idx' = 1
    /\ mi' = 1
    /\ attempt_info' = NewAttempt(1, fd)
    /\ pc' = "submit"
    /\ result' = result

\* the dict of lines 519-523, which fetch_case_data returns as it is (line 225)
NotFoundOutcome(n) ==
    MkOutcome({"error", "details", "strategies_attempted"}, ErrNotFound,
              EmptyDebugInfo, NoCaptchaInfo, n, NoRecord)

\* a strategy ends without success: lines 507, 514-516, then the next
\* strategy or lines 518-523
FinishStrategy(info) ==
    /\ debug_info' = [debug_info EXCEPT !.submission_attempts =
                        Append(@, [info EXCEPT !.result = "failed"])]
    /\ IF idx < Len(form_data)
       THEN /\ idx' = idx + 1
            /\ mi' = 1
            /\ attempt_info' = NewAttempt(idx + 1, form_data)
            /\ UNCHANGED <<pc, result>>
       ELSE /\ attempt_info' = [info EXCEPT !.result = "failed"]
            /\ result' = NotFoundOutcome(Len(form_data))
            /\ pc' = "done"
            /\ UNCHANGED <<idx, mi>>

SubmitFrame ==
    UNCHANGED <<working_url, caller, url_i, form_data, returns, probes, arg, ret, handler, scrapers>>

SubmitFailed_abort ==
    /\ pc = "submit"
    /\ \E resp \in SubmitFailures :
        /\ requests' = Append(requests, SubmitRequest(FALSE, EmptyDoc))
        /\ IF resp.exc # "other"
           THEN IF mi < Len(methods_to_try)
                THEN /\ mi' = mi + 1
                     /\ UNCHANGED <<debug_info, idx, attempt_info, pc, result>>
                ELSE FinishStrategy(attempt_info)
           ELSE /\ debug_info' = [debug_info EXCEPT !.submission_attempts =
                        Append(@, [attempt_info EXCEPT !.result = "exception"])]
                /\ attempt_info' = [attempt_info EXCEPT !.result = "exception"]
                /\ result' = NotFoundOutcome(Len(form_data))
                /\ pc' = "done"
                /\ UNCHANGED <<idx, mi>>
    /\ UNCHANGED last_raw_response
    /\ SubmitFrame

SubmitFailed_retry ==
    /\ pc = "submit"
    /\ \E resp \in SubmitFailures :
        /\ requests' = Append(requests, SubmitRequest(FALSE, EmptyDoc))
        /\ IF requests[Len(requests)].kind # "submit"
              \/ requests[Len(requests)].strategy # idx
              \/ requests[Len(requests)].mi # mi
           THEN UNCHANGED <<debug_info, idx, mi, attempt_info, pc, result>>
           ELSE IF mi < Len(methods_to_try)
           THEN /\ mi' = mi + 1
                /\ UNCHANGED <<debug_info, idx, attempt_info, pc, result>>
           ELSE FinishStrategy(attempt_info)
    /\ UNCHANGED last_raw_response
    /\ SubmitFrame

\* no 200 response: _submit_form returns None or the exception is caught at
\* line 503; the next method is tried
SubmitFailed ==
    /\ pc = "submit"
    /\ \E resp \in SubmitFailures :
        /\ requests' = Append(requests, SubmitRequest(FALSE, EmptyDoc))
        /\ IF mi < Len(methods_to_try)
           THEN /\ mi' = mi + 1
                /\ UNCHANGED <<debug_info, idx, attempt_info, pc, result>>
           ELSE FinishStrategy(attempt_info)
    /\ UNCHANGED last_raw_response
    /\ SubmitFrame

SubmitNotFound_continue ==
    /\ pc = "submit"
    /\ \E doc \in ResultDocs :
        LET case_data == ParsedResults[doc]
            info == [WithResponse(attempt_info, mi) EXCEPT
                        !.parse_result = case_data.error]
        IN  /\ case_data.error # ""
            /\ requests' = Append(requests, SubmitRequest(TRUE, doc))
            /\ last_raw_response' = doc
            /\ IF mi < Len(methods_to_try)
               THEN /\ mi' = mi + 1
                    /\ attempt_info' = info
                    /\ UNCHANGED <<debug_info, idx, pc, result>>
               ELSE FinishStrategy(info)
    /\ SubmitFrame

\* a 200 response that parses to an error dict: lines 500-502, `break`
SubmitNotFound ==
    /\ pc = "submit"
    /\ \E doc \in ResultDocs :
        LET case_data == ParsedResults[doc]
        IN  /\ case_data.error # ""
            /\ requests' = Append(requests, SubmitRequest(TRUE, doc))
            /\ last_raw_response' = doc
            /\ FinishStrategy([WithResponse(attempt_info, mi) EXCEPT
                                    !.parse_result = case_data.error])
    /\ SubmitFrame

SubmitSuccess_continue ==
    /\ pc = "submit"
    /\ \E doc \in ResultDocs :
        LET case_data == ParsedResults[doc]
            info == [WithResponse(attempt_info, mi) EXCEPT !.result = "success"]
        IN  /\ case_data.error = ""
            /\ requests' = Append(requests, SubmitRequest(TRUE, doc))
            /\ last_raw_response' = doc
            /\ IF idx < Len(form_data)
               THEN /\ debug_info' = [debug_info EXCEPT !.submission_attempts =
                                        Append(@, info)]
                    /\ idx' = idx + 1
                    /\ mi' = 1
                    /\ attempt_info' = NewAttempt(idx + 1, form_data)
                    /\ UNCHANGED <<pc, result>>
               ELSE LET dbg == [debug_info EXCEPT !.submission_attempts =
                                    Append(Append(@, info), info)]
                    IN  /\ attempt_info' = info
                        /\ debug_info' = dbg
                        /\ result' = [case_data EXCEPT
                                !.keys = @ \cup {"debug_info", "court_name"},
                                !.debug_info = dbg]
                        /\ pc' = "done"
                        /\ UNCHANGED <<idx, mi>>
    /\ SubmitFrame

SubmitSuccess_notrail ==
    /\ pc = "submit"
    /\ \E doc \in ResultDocs :
        LET case_data == ParsedResults[doc]
            info == [WithResponse(attempt_info, mi) EXCEPT !.result = "success"]
        IN  /\ case_data.error = ""
            /\ requests' = Append(requests, SubmitRequest(TRUE, doc))
            /\ last_raw_response' = doc
            /\ attempt_info' = info
            /\ debug_info' = debug_info
            /\ result' = [case_data EXCEPT
                            !.keys = @ \cup {"debug_info", "court_name"},
                            !.debug_info = debug_info]
            /\ pc' = "done"
    /\ UNCHANGED <<idx, mi>>
    /\ SubmitFrame

\* a 200 response that parses to a record: lines 496-499, the `finally` of
\* lines 514-516, then lines 219-222 of fetch_case_data
SubmitSuccess ==
    /\ pc = "submit"
    /\ \E doc \in ResultDocs :
        LET case_data == ParsedResults[doc]
            info == [WithResponse(attempt_info, mi) EXCEPT !.result = "success"]
            dbg == [debug_info EXCEPT !.submission_attempts =
                        Append(Append(@, info), info)]
        IN  /\ case_data.error = ""
            /\ requests' = Append(requests, SubmitRequest(TRUE, doc))
            /\ last_raw_response' = doc
            /\ attempt_info' = info
            /\ debug_info' = dbg
            /\ result' = [case_data EXCEPT
                            !.keys = @ \cup {"debug_info", "court_name"},
                            !.debug_info = dbg]
            /\ pc' = "done"
    /\ UNCHANGED <<idx, mi>>
    /\ SubmitFrame

(***************************************************************************)
(* fetch_case_data                                                         *)
(***************************************************************************)
\* lines 137-147
StartFetch ==
    /\ pc = "idle"
    /\ returns = <<>>
    /\ caller' = "fetch"
    /\ LET dbg == [EmptyDebugInfo EXCEPT !.keys =
                     {"case_type", "case_number", "filing_year", "timestamp",
                      "steps", "court"}]
       IN  IF HasCachedUrl
           THEN /\ FindReturns(working_url, dbg, requests)
                /\ UNCHANGED <<url_i, probes>>
           ELSE /\ debug_info' = [dbg EXCEPT !.keys = @ \cup {"tested_urls"}]
                /\ url_i' = 1
                /\ pc' = "probing"
                /\ probes' = <<>>
                /\ UNCHANGED <<returns, result>>
    /\ UNCHANGED <<working_url, last_raw_response, form_data, idx, mi,
                   attempt_info, requests, arg, ret, handler, scrapers>>

\* the entry of the page load also keeps the status that came back (0 when
\* the GET raised)
LoadRequest(resp) ==
    [kind |-> "load", url |-> working_url, strategy |-> 0, mi |-> 0,
     ok |-> resp.exc = "none" /\ resp.status_code = 200, doc |-> resp.doc,
     status_code |-> IF resp.exc = "none" THEN resp.status_code ELSE 0]

FetchOutcome(error, captcha_keys, captcha_info) ==
    MkOutcome({"error", "details", "debug_info"} \cup captcha_keys, error,
              debug_info', captcha_info, 0, NoRecord)

LoadFrame == UNCHANGED <<working_url, last_raw_response, caller, url_i,
                         returns, probes, arg, ret, handler, scrapers>>

\* lines 164-170 and 194: the trail after the page is loaded and analysed
LoadedDebugInfo(doc) ==
    [debug_info EXCEPT
        !.keys = @ \cup {"search_page_info", "page_analysis"},
        !.steps = Append(@, "Successfully loaded search page"),
        !.forms_found = doc.forms]

\* the GET or raise_for_status raises: lines 172-190, 231-237
LoadFailed ==
    /\ pc = "load"
    /\ \E resp \in LoadResponsesAt(working_url) :
        /\ resp.exc # "none" \/ resp.status_code >= 400
        /\ requests' = Append(requests, LoadRequest(resp))
        /\ debug_info' = debug_info
        /\ result' = FetchOutcome(
              IF resp.exc = "request" THEN ErrNetwork
              ELSE IF resp.exc = "other" THEN ErrUnexpected
              ELSE IF resp.status_code = 404 THEN ErrPageNotFound
              ELSE ErrHttp, {}, NoCaptchaInfo)
    /\ pc' = "done"
    /\ UNCHANGED <<form_data, idx, mi, attempt_info>>
    /\ LoadFrame

LoadCrashed_notrail ==
    /\ pc = "load"
    /\ \E resp \in LoadResponsesAt(working_url) :
        /\ resp.exc = "none" /\ resp.status_code < 400
        /\ resp.doc.malformed
        /\ requests' = Append(requests, LoadRequest(resp))
        /\ debug_info' = EmptyDebugInfo
        /\ result' = FetchOutcome(ErrUnexpected, {}, NoCaptchaInfo)
    /\ pc' = "done"
    /\ UNCHANGED <<form_data, idx, mi, attempt_info>>
    /\ LoadFrame

\* the page is loaded (lines 161-170) and parsing it raises at line 193:
\* the outer except, lines 231-237
LoadCrashed ==
    /\ pc = "load"
    /\ \E resp \in LoadResponsesAt(working_url) :
        /\ resp.exc = "none" /\ resp.status_code < 400
        /\ resp.doc.malformed
        /\ requests' = Append(requests, LoadRequest(resp))
        /\ debug_info' =
              [debug_info EXCEPT
                  !.keys = @ \cup {"search_page_info"},
                  !.steps = Append(@, "Successfully loaded search page")]
        /\ result' = FetchOutcome(ErrUnexpected, {}, NoCaptchaInfo)
    /\ pc' = "done"
    /\ UNCHANGED <<form_data, idx, mi, attempt_info>>
    /\ LoadFrame

LoadObstructed_proceed ==
    /\ pc = "load"
    /\ \E resp \in LoadResponsesAt(working_url) :
        /\ resp.exc = "none" /\ resp.status_code < 400
        /\ ~resp.doc.malformed
        /\ _check_captcha(resp.doc).has_captcha
        /\ requests' = Append(requests, LoadRequest(resp))
        /\ form_data' = _prepare_form_data(resp.doc, Query)
        /\ EnterSubmissions(LoadedDebugInfo(resp.doc),
                            _prepare_form_data(resp.doc, Query))
    /\ LoadFrame

\* the page is loaded and _check_captcha finds a CAPTCHA: lines 193-204
LoadObstructed ==
    /\ pc = "load"
    /\ \E resp \in LoadResponsesAt(working_url) :
        /\ resp.exc = "none" /\ resp.status_code < 400
        /\ ~resp.doc.malformed
        /\ _check_captcha(resp.doc).has_captcha
        /\ requests' = Append(requests, LoadRequest(resp))
        /\ debug_info' = LoadedDebugInfo(resp.doc)
        /\ result' = FetchOutcome(ErrCaptcha, {"captcha_info"},
                                  _check_captcha(resp.doc))
    /\ pc' = "done"
    /\ UNCHANGED <<form_data, idx, mi, attempt_info>>
    /\ LoadFrame

\* the page is loaded without a CAPTCHA: lines 206-217
LoadReady ==
    /\ pc = "load"
    /\ \E resp \in LoadResponsesAt(working_url) :
        LET fd == _prepare_form_data(resp.doc, Query)
            dbg == [LoadedDebugInfo(resp.doc) EXCEPT
                      !.keys = @ \cup {"hidden_fields_extracted", "form_strategies"},
                      !.hidden_fields_extracted =
                            DOMAIN _extract_hidden_fields(resp.doc),
                      !.form_strategies = Len(fd)]
        IN  /\ resp.exc = "none" /\ resp.status_code < 400
            /\ ~resp.doc.malformed
            /\ ~_check_captcha(resp.doc).has_captcha
            /\ requests' = Append(requests, LoadRequest(resp))
            /\ form_data' = fd
            /\ IF Len(fd) = 0
               THEN /\ debug_info' = dbg
                    /\ result' = FetchOutcome(ErrNoForm, {}, NoCaptchaInfo)
                    /\ pc' = "done"
                    /\ UNCHANGED <<idx, mi, attempt_info>>
               ELSE EnterSubmissions(dbg, fd)
    /\ LoadFrame

(***************************************************************************)
(* The extraction methods called on their own, on one response document.   *)
(***************************************************************************)
\* the sequences over the entries of pool, up to length n
RECURSIVE SeqsUpTo(_, _)
SeqsUpTo(pool, n) ==
    IF n = 0 THEN {<<>>}
    ELSE SeqsUpTo(pool, n - 1)
         \cup {Append(r, pool[i]) : r \in SeqsUpTo(pool, n - 1), i \in 1..Len(pool)}

\* two-cell table rows of a result page
RowPool ==
    << <<"Petitioner", "Ramesh Kumar">>, <<"Petitioner", "Sita Devi">>,
       <<"Applicant", "Ramesh Kumar">>, <<"Petitioner", "">>,
       <<"Respondent", "State of Maharashtra">>,
       <<"Defendant", "State of Maharashtra">>,
       <<"Case Status", "Pending">>, <<"Date", "15-03-2023">>,
       <<"Order", "Interim order passed">>,
       <<"Next Hearing Date", "01.04.2023">> >>

\* result pages with a table, with and without a not-found phrase
TablePages ==
    { MkDoc({}, {}, {"Case Status"} \cup t, rows, 0, <<>>, FALSE) :
        rows \in SeqsUpTo(RowPool, MaxRows),
        t \in {{}, {"No Record Found"}, {"RECORD NOT FOUND"}} }
    \cup {MalformedDoc, NothingDoc, MentionDoc, MentionRecordDoc}

\* the texts of the document links of one page
LinkTexts ==
    <<"Order 1", "Order 2", "Order 3", "Order 4", "Order 5", "Order 6",
      "Order 7", "Order 8", "Order 9", "Order 10", "Order 11", "Order 12",
      "Order 13">>

\* n anchors: with texts that differ, with one text, without text
Anchors(n, kind) ==
    [i \in 1..n |->
        [href |-> IF i = 1 THEN "https://wardha.dcourts.gov.in/orders/9.pdf"
                  ELSE "/orders/1.pdf",
         text |-> CASE kind = "differ" -> LinkTexts[((i - 1) % Len(LinkTexts)) + 1]
                    [] kind = "same"   -> "Order Interim order passed"
                    [] OTHER           -> "",
         parent |-> IF i = 2 THEN "Order dated 15-03-2023" ELSE ""]]

OrderRows ==
    { <<>>,
      << <<"Order", "Interim order passed">> >>,
      << <<"Order", "Interim order passed">>, <<"Order", "Interim order passed">> >>,
      << <<"Date", "15-03-2023">>, <<"Order", "Notice issued on 2023/04/01">>,
         <<"Petitioner", "Ramesh Kumar">> >> }

OrderItems ==
    { <<>>,
      << [text |-> "Order Interim order passed", href |-> ""] >>,
      << [text |-> "Hearing on 01.04.2023", href |-> "/orders/7.pdf"],
         [text |-> "Judgment", href |-> ""],
         [text |-> "Hearing on 01.04.2023", href |-> ""] >> }

\* result pages with document links, order rows and order containers
OrderPages ==
    { [MkDoc({}, {}, {"Case Status"}, rows, 0, <<>>, FALSE) EXCEPT
            !.links = Anchors(n, kind), !.items = items] :
        n \in 0..MaxLinks, kind \in {"differ", "same", "empty"},
        rows \in OrderRows, items \in OrderItems }

InitExtract ==
    /\ InitObject
    /\ handler = <<>>
    /\ scrapers = <<>>
    /\ arg \in {[fn |-> "document", doc |-> d] : d \in TablePages \cup OrderPages}
    /\ ret = NoCall

CallFrame ==
    UNCHANGED <<working_url, debug_info, last_raw_response, pc, caller, url_i,
                form_data, idx, mi, attempt_info, result, returns, requests,
                probes, arg, handler, scrapers>>

\* self._parse_response(response, case_type, case_number, filing_year)
CallParseResponse ==
    /\ arg.fn = "document"
    /\ ret = NoCall
    /\ ret' = [fn |-> "_parse_response", value |-> _parse_response(arg.doc, Query)]
    /\ CallFrame

\* self._extract_case_info(soup, case_type, case_number, filing_year)
CallExtractCaseInfo ==
    /\ arg.fn = "document"
    /\ ret = NoCall
    /\ ret' = [fn |-> "_extract_case_info",
               value |-> _extract_case_info(arg.doc, Query)]
    /\ CallFrame

\* self._extract_orders(soup)
CallExtractOrders ==
    /\ arg.fn = "document"
    /\ ret = NoCall
    /\ ret' = [fn |-> "_extract_orders", value |-> _extract_orders(arg.doc)]
    /\ CallFrame

NextExtract == CallParseResponse \/ CallExtractCaseInfo \/ CallExtractOrders

\* one response document, parsed or extracted
SpecExtract == InitExtract /\ [][NextExtract]_vars

(***************************************************************************)
(* _parse_date called on its own.  The date strings given to it are dates  *)
(* written out in one of the layouts of date_formats, and other strings;   *)
(* `layout` (0 for the other strings), `day`, `month`, `year` and `padded` *)
(* record how the string was written.                                      *)
(***************************************************************************)
Days == {1, 15, 23, 29, 31}
Months == {2, 3, 12}
Years == {1949, 1950, 1999, 2015, 2023, 2024, 2030, 2031}

\* a number as a date string shows it: with two digits, or as it is
TwoDigits(n) == <<DigitChars[((n \div 10) % 10) + 1], DigitChars[(n % 10) + 1]>>
FourDigits(n) == TwoDigits(n \div 100) \o TwoDigits(n % 100)
Shown(n, padded) == IF padded \/ n >= 10 THEN TwoDigits(n) ELSE <<DigitChars[n + 1]>>

\* a month name as it is printed: March, Mar
Capitalized(name) ==
    <<UpperLetters[CHOOSE i \in 1..Len(LowerLetters) : LowerLetters[i] = name[1]]>>
    \o Tail(name)

\* the date written in the layout fmt, from directive k on
RECURSIVE Written(_, _, _, _, _, _)
Written(fmt, k, day, month, year, padded) ==
    IF k > Len(fmt) THEN <<>>
    ELSE (CASE fmt[k] = "%d" -> Shown(day, padded)
            [] fmt[k] = "%m" -> Shown(month, padded)
            [] fmt[k] = "%Y" -> FourDigits(year)
            [] fmt[k] = "%y" -> TwoDigits(year % 100)
            [] fmt[k] = "%B" -> Capitalized(month_name[month])
            [] fmt[k] = "%b" -> Capitalized(month_abbr[month])
            [] OTHER         -> <<fmt[k]>>)
         \o Written(fmt, k + 1, day, month, year, padded)

\* the layouts of date_formats without the two repeated at its end
NumLayouts == 20

WrittenDates ==
    { [fn |-> "date_str",
       str |-> Written(date_formats[k], 1, d, m, y, padded),
       layout |-> k, day |-> d, month |-> m, year |-> y, padded |-> padded] :
        k \in 1..NumLayouts, d \in Days, m \in Months, y \in Years,
        padded \in BOOLEAN }

\* strings that are no dates
OtherStrings ==
    { <<>>, <<" ">>, <<" ", " ">>,
      <<"g", "a", "r", "b", "a", "g", "e">>,
      <<" ", "g", "a", "r", "b", "a", "g", "e">>,
      <<"g", "a", "r", "b", "a", "g", "e", " ">>,
      <<"1", "5", "-", "0", "3">>,
      <<"2", "0", "2", "3">>,
      <<"3", "2", "-", "1", "3", "-", "2", "0", "2", "3">>,
      <<"0", "0", "-", "0", "0", "-", "0", "0", "0", "0">>,
      <<"N", "/", "A">> }

InitDate ==
    /\ InitObject
    /\ handler = <<>>
    /\ scrapers = <<>>
    /\ arg \in WrittenDates
               \cup { [fn |-> "date_str", str |-> s, layout |-> 0, day |-> 0,
                       month |-> 0, year |-> 0, padded |-> FALSE] :
                        s \in OtherStrings }
    /\ ret = NoCall

\* self._parse_date(date_str)
CallParseDate ==
    /\ arg.fn = "date_str"
    /\ ret = NoCall
    /\ ret' = [fn |-> "_parse_date", value |-> _parse_date(arg.str)]
    /\ CallFrame

NextDate == CallParseDate

\* one date string, normalised
SpecDate == InitDate /\ [][NextDate]_vars

(***************************************************************************)
(* _prepare_form_data called on its own, on one search page.               *)
(***************************************************************************)
\* hidden inputs of a search page: name and value
HiddenPool ==
    << <<"__VIEWSTATE", "dDwt">>, <<"csrf_token", "">>, <<"sid", "42">>,
       <<"submit", "1">>, <<"submit", "go">>, <<"case_no", "">>,
       <<"action", "list">>, <<"format", "json">> >>

FormPages ==
    { [CourtPage EXCEPT !.hidden = h] : h \in SeqsUpTo(HiddenPool, MaxHidden) }

InitForm ==
    /\ InitObject
    /\ handler = <<>>
    /\ scrapers = <<>>
    /\ arg \in {[fn |-> "search_page", doc |-> d] : d \in FormPages}
    /\ ret = NoCall

\* self._prepare_form_data(soup, case_type, case_number, filing_year): the
\* whole list, and the two entries of the trail (lines 352, 421)
CallPrepareFormData ==
    /\ arg.fn = "search_page"
    /\ ret = NoCall
    /\ ret' = [fn |-> "_prepare_form_data",
               value |-> enhanced_variations(arg.doc, Query)]
    /\ debug_info' =
          [debug_info EXCEPT
              !.keys = @ \cup {"hidden_fields_extracted", "form_strategies"},
              !.hidden_fields_extracted = DOMAIN _extract_hidden_fields(arg.doc),
              !.form_strategies = Len(enhanced_variations(arg.doc, Query))]
    /\ UNCHANGED <<working_url, last_raw_response, pc, caller, url_i,
                   form_data, idx, mi, attempt_info, result, returns, requests,
                   probes, arg, handler, scrapers>>

NextForm == CallPrepareFormData

\* one search page, its parameter sets generated
SpecForm == InitForm /\ [][NextForm]_vars

NextResolve == CallFind \/ ProbeError \/ ProbeRejected \/ ProbeSelected

\* one instance that receives direct calls of _find_working_url
SpecResolve == Init /\ [][NextResolve]_vars

Next ==
    \/ StartFetch \/ ProbeError \/ ProbeRejected \/ ProbeSelected
    \/ LoadFailed \/ LoadCrashed \/ LoadObstructed \/ LoadReady
    \/ SubmitFailed \/ SubmitNotFound \/ SubmitSuccess

\* one query: fetch_case_data on a new instance
Spec == Init /\ [][Next]_vars

\* the same query when every step that can be taken is taken in the end:
\* each request carries a timeout (lines 78, 161, 538, 547), the pause of
\* line 516 ends, and nothing else in the loops waits
SpecLive == Spec /\ WF_vars(Next)

(***************************************************************************)
(* The web layer: search_case of app.py, for the requests it handles at    *)
(* once.  A form field is the sequence of its characters; of the engine    *)
(* each step keeps which instance fields it reads and writes:              *)
(*   debug_info:        the request whose trail the dict is (0: {})        *)
(*   last_raw_response: the request whose response it is (0: None)         *)
(*   session:           the requests whose exchanges fed the cookie jar    *)
(*   used_by:           the requests that read or wrote the instance       *)
(***************************************************************************)
\* the requests the server handles at once
NumHandlers == 2

\* datetime.now().year
current_year == 2025

\* str.replace(c, '')
RECURSIVE Remove(_, _)
Remove(s, c) ==
    IF s = <<>> THEN <<>>
    ELSE (IF Head(s) = c THEN <<>> ELSE <<Head(s)>>) \o Remove(Tail(s), c)

\* str.isdigit()
IsDigits(s) == s # <<>> /\ \A i \in 1..Len(s) : IsDigit(s[i])

\* int(s) of a stripped string, ok = FALSE for a ValueError: a sign, then
\* digits, single underscores between them
int(s) ==
    LET signed == s # <<>> /\ s[1] \in {"+", "-"}
        body == IF signed THEN Tail(s) ELSE s
        grouped == /\ body # <<>>
                   /\ IsDigit(body[1]) /\ IsDigit(body[Len(body)])
                   /\ \A i \in 1..Len(body) : IsDigit(body[i]) \/ body[i] = "_"
                   /\ \A i \in 1..(Len(body) - 1) :
                        ~(body[i] = "_" /\ body[i + 1] = "_")
    IN  IF grouped
        THEN [ok |-> TRUE,
              value |-> IF signed /\ s[1] = "-" THEN 0 - IntOf(Remove(body, "_"))
                        ELSE IntOf(Remove(body, "_"))]
        ELSE [ok |-> FALSE, value |-> 0]

NoQuery == [case_type |-> <<>>, case_number |-> <<>>, filing_year |-> 0]

Rejected(error) == [error |-> error, query |-> NoQuery]

Validation_anynumber(form) ==
    LET case_type == Strip(form.case_type)
        case_number == Strip(form.case_number)
        filing_year == Strip(form.filing_year)
        Checked(year) ==
            IF ~year.ok \/ year.value < 1950 \/ year.value > current_year
            THEN Rejected("Please enter a valid filing year")
            ELSE [error |-> "",
                  query |-> [case_type |-> case_type, case_number |-> case_number,
                             filing_year |-> year.value]]
    IN  IF case_type = <<>> \/ case_number = <<>> \/ filing_year = <<>>
        THEN Rejected("All fields are required")
        ELSE Checked(int(filing_year))

\* lines 150-181 of search_case: the error shown, or "" and the query that
\* goes on
Validation(form) ==
    LET case_type == Strip(form.case_type)
        case_number == Strip(form.case_number)
        filing_year == Strip(form.filing_year)
        Checked(year) ==
            IF ~year.ok \/ year.value < 1950 \/ year.value > current_year
            THEN Rejected("Please enter a valid filing year")
            ELSE IF ~IsDigits(Remove(Remove(case_number, "/"), "-"))
            THEN Rejected("Case number should contain only numbers, dashes, and slashes")
            ELSE [error |-> "",
                  query |-> [case_type |-> case_type, case_number |-> case_number,
                             filing_year |-> year.value]]
    IN  IF case_type = <<>> \/ case_number = <<>> \/ filing_year = <<>>
        THEN Rejected("All fields are required")
        ELSE Checked(int(filing_year))

\* a request and the locals of its search_case: `fetched` is the query
\* fetch_case_data was called with, `kind` how that call ends
Received(form) ==
    [pc |-> "received", form |-> form, error |-> "", query |-> NoQuery,
     scraper |-> 0, fetched |-> NoQuery, kind |-> "None",
     case_data |-> [kind |-> "None", debug_info |-> 0],
     raw_response |-> 0, status |-> "None"]

\* a request that never comes
Absent ==
    [Received([case_type |-> <<>>, case_number |-> <<>>, filing_year |-> <<>>,
               year |-> 0])
        EXCEPT !.pc = "absent"]

\* WardhaDistrictCourtScraper.__init__: lines 21-52 of the scraper
NewScraper ==
    [working_url |-> None, debug_info |-> 0, last_raw_response |-> 0,
     session |-> {}, used_by |-> {}]

WebFrame ==
    UNCHANGED <<working_url, debug_info, last_raw_response, pc, caller, url_i,
                form_data, idx, mi, attempt_info, result, returns, requests,
                probes, arg, ret>>

\* lines 157-181: a validation error is rendered
ValidationError(h) ==
    /\ handler[h].pc = "received"
    /\ Validation(handler[h].form).error # ""
    /\ handler' = [handler EXCEPT ![h] =
            [@ EXCEPT !.pc = "done", !.status = "validation_error",
                      !.error = Validation(handler[h].form).error]]
    /\ UNCHANGED scrapers
    /\ WebFrame

\* the form passes
Validated(h) ==
    /\ handler[h].pc = "received"
    /\ Validation(handler[h].form).error = ""
    /\ handler' = [handler EXCEPT ![h] =
            [@ EXCEPT !.pc = "validated",
                      !.query = Validation(handler[h].form).query]]
    /\ UNCHANGED scrapers
    /\ WebFrame

\* lines 183-189, 221-228: test_court_website() finds no URL, demo data
Fallback(h) ==
    /\ handler[h].pc = "validated"
    /\ handler' = [handler EXCEPT ![h] =
            [@ EXCEPT !.pc = "done", !.status = "fallback_success",
                      !.case_data = [kind |-> "mock", debug_info |-> 0]]]
    /\ UNCHANGED scrapers
    /\ WebFrame

Construct_shared(h) ==
    /\ handler[h].pc = "validated"
    /\ scrapers' = IF scrapers = <<>> THEN <<NewScraper>> ELSE scrapers
    /\ handler' = [handler EXCEPT ![h] = [@ EXCEPT !.pc = "fetch", !.scraper = 1]]
    /\ WebFrame

\* line 190: scraper = WardhaDistrictCourtScraper()
Construct(h) ==
    /\ handler[h].pc = "validated"
    /\ scrapers' = Append(scrapers, NewScraper)
    /\ handler' = [handler EXCEPT ![h] =
            [@ EXCEPT !.pc = "fetch", !.scraper = Len(scrapers) + 1]]
    /\ WebFrame

\* line 192 and lines 137-144 of the scraper: fetch_case_data is called and
\* resets self.debug_info
FetchBegin(h) ==
    /\ handler[h].pc = "fetch"
    /\ scrapers' = [scrapers EXCEPT ![handler[h].scraper] =
            [@ EXCEPT !.debug_info = h, !.used_by = @ \cup {h}]]
    /\ handler' = [handler EXCEPT ![h] =
            [@ EXCEPT !.pc = "requests", !.fetched = handler[h].query]]
    /\ WebFrame

\* lines 147-217 of the scraper: the requests of the query, through
\* self.session; self.working_url is read and set, a submission that
\* brings a response sets self.last_raw_response
FetchRequests(h) ==
    /\ handler[h].pc = "requests"
    /\ \E kind \in {"unreachable", "error", "found"} :
        /\ kind = "unreachable" => scrapers[handler[h].scraper].working_url = None
        /\ scrapers' = [scrapers EXCEPT ![handler[h].scraper] =
                [@ EXCEPT !.working_url = IF kind = "unreachable" THEN None
                                          ELSE IF @ = None THEN 1 ELSE @,
                          !.last_raw_response = IF kind = "unreachable" THEN @
                                                ELSE h,
                          !.session = @ \cup {h},
                          !.used_by = @ \cup {h}]]
        /\ handler' = [handler EXCEPT ![h] =
                [@ EXCEPT !.pc = "return", !.kind = kind]]
    /\ WebFrame

\* the outcome is returned with self.debug_info in it
FetchReturn(h) ==
    /\ handler[h].pc = "return"
    /\ handler' = [handler EXCEPT ![h] =
            [@ EXCEPT !.pc = "raw",
                      !.case_data =
                          [kind |-> handler[h].kind,
                           debug_info |-> scrapers[handler[h].scraper].debug_info]]]
    /\ scrapers' = [scrapers EXCEPT ![handler[h].scraper] =
            [@ EXCEPT !.used_by = @ \cup {h}]]
    /\ WebFrame

\* lines 193-244: raw_response = scraper.last_raw_response, the status, the
\* result page
Respond(h) ==
    /\ handler[h].pc = "raw"
    /\ handler' = [handler EXCEPT ![h] =
            [@ EXCEPT !.pc = "done",
                      !.raw_response =
                          scrapers[handler[h].scraper].last_raw_response,
                      !.status = IF handler[h].kind = "found" THEN "success"
                                 ELSE IF handler[h].kind = "unreachable"
                                 THEN "fallback_success"
                                 ELSE "scraper_error"]]
    /\ scrapers' = [scrapers EXCEPT ![handler[h].scraper] =
            [@ EXCEPT !.used_by = @ \cup {h}]]
    /\ WebFrame

NextWeb ==
    \E h \in 1..NumHandlers :
        \/ ValidationError(h) \/ Validated(h) \/ Fallback(h) \/ Construct(h)
        \/ FetchBegin(h) \/ FetchRequests(h) \/ FetchReturn(h) \/ Respond(h)

\* a form as it is posted; `year` is the integer its year field denotes
\* (0: none)
MkForm(case_type, case_number, filing_year, year) ==
    [case_type |-> case_type, case_number |-> case_number,
     filing_year |-> filing_year, year |-> year]

YearFields ==
    { <<<<>>, 0>>, <<<<" ">>, 0>>, <<<<"a", "b", "c", "d">>, 0>>,
      <<<<"2", "0", ".", "5">>, 0>>, <<<<"2", "0", "2", "3", "-">>, 0>>,
      <<<<"1", "9", "4", "9">>, 1949>>, <<<<"1", "9", "5", "0">>, 1950>>,
      <<<<" ", "2", "0", "2", "3", " ">>, 2023>>,
      <<<<"+", "2", "0", "2", "3">>, 2023>>,
      <<<<"2", "_", "0", "2", "3">>, 2023>>,
      <<<<"-", "2", "0", "2", "3">>, 0 - 2023>>,
      <<<<"2", "0", "2", "5">>, 2025>>, <<<<"2", "0", "2", "6">>, 2026>> }

CaseTypeFields == { <<>>, <<" ">>, <<"R", "C", "S">>, <<" ", "R", "C", "S">> }

CaseNumberFields ==
    { <<>>, <<" ">>, <<"1", "2", "3">>, <<"1", "2", "/", "3">>,
      <<"1", "-", "2">>, <<"/">>, <<"-", "/">>, <<"1", "2", "a">>,
      <<"1", " ", "2">>, <<" ", "1", "2", " ">>, <<"1", ".", "2">> }

Forms ==
    { MkForm(t, n, y[1], y[2]) :
        t \in CaseTypeFields, n \in CaseNumberFields, y \in YearFields }

\* the server with its requests in hand, each with one of two forms
InitWeb ==
    /\ InitObject
    /\ arg = NoCall
    /\ ret = NoCall
    /\ scrapers = <<>>
    /\ handler \in [1..NumHandlers ->
            {Received(MkForm(<<"R", "C", "S">>, n, <<"2", "0", "2", "3">>, 2023)) :
                n \in {<<"1", "2", "3">>, <<"1", "2", "a">>}}]

\* requests handled at once
SpecWeb == InitWeb /\ [][NextWeb]_vars

\* the server with one request in hand, with any form
InitSearch ==
    /\ InitObject
    /\ arg = NoCall
    /\ ret = NoCall
    /\ scrapers = <<>>
    /\ handler \in {[h \in 1..NumHandlers |->
                        IF h = 1 THEN Received(form) ELSE Absent] :
                    form \in Forms}

\* one request
SpecSearch == InitSearch /\ [][NextWeb]_vars

(***************************************************************************)
(* Claims.                                                                 *)
(***************************************************************************)
\* the four conditions of a genuine target page, on the response a probe received
Qualifies(resp) ==
    /\ resp.exc = "none"
    /\ resp.status_code = 200
    /\ resp.content_length > 1000
    /\ "html" \in Substrings(Lower(resp.content_type))
    /\ ValidCount(resp) >= 3

\* the probe responses that pass the four conditions
Accepted == {resp \in ProbeResponses : Qualifies(resp)}

\* the requests issued during the n-th direct call of _find_working_url
CallRequests(n) ==
    ((IF n = 1 THEN 0 ELSE returns[n - 1].upto) + 1)..returns[n].upto

\* how often candidate c was probed during the calls n and n + 1
ProbedInBoth(c, n) ==
    Cardinality({i \in CallRequests(n) \cup CallRequests(n + 1) :
                    requests[i].kind = "probe" /\ requests[i].url = c})

\* C1 as stated: for every outcome of the first call, the case where no
\* candidate qualifies included, two consecutive calls of _find_working_url
\* return the identical result and probe each candidate at most once in total.
C1_IdempotentAlways ==
    \A n \in 1..(Len(returns) - 1) :
        /\ returns[n + 1].url = returns[n].url
        /\ \A c \in search_urls : ProbedInBoth(c, n) <= 1

\* C1 amended: when the first of two consecutive calls returns a URL, the
\* second returns the identical URL and each candidate is probed at most once
\* in total across both calls; when the first call returns None nothing is
\* cached and the second call probes the candidates again.
C1_IdempotentOnceSelected ==
    \A n \in 1..(Len(returns) - 1) :
        IF returns[n].url # None
        THEN /\ returns[n + 1].url = returns[n].url
             /\ \A c \in search_urls : ProbedInBoth(c, n) <= 1
        ELSE \E i \in CallRequests(n + 1) :
                requests[i].kind = "probe" /\ requests[i].url = 1

\* two calls, the first of which probed and selected a candidate
C1_Witness ==
    /\ Len(returns) >= 2
    /\ returns[1].url # None
    /\ returns[1].upto > 0
    /\ returns[2].upto = returns[1].upto

\* C2: resolution probes the candidates in list order and selects, caches and
\* returns the first whose response has status 200, more than 1000 bytes, an
\* html content type and a keyword score of at least 3; no candidate after
\* the selected one is probed.
C2_FirstQualifyingSelected ==
    /\ \A j \in 1..Len(probes) : probes[j].url = j
    /\ \A j \in 1..Len(probes) :
         Qualifies(probes[j].resp) =>
            /\ j = Len(probes)
            /\ pc # "probing"
            /\ working_url = j
            /\ returns # <<>> /\ returns[Len(returns)].url = j
    /\ working_url # None =>
            /\ probes # <<>>
            /\ Qualifies(probes[Len(probes)].resp)
            /\ working_url = Len(probes)
    /\ (returns # <<>> /\ pc = "idle" /\ working_url = None) =>
            /\ returns[Len(returns)].url = None
            /\ Len(probes) = NumUrls

\* candidates [A, B]: A answers 404, B qualifies, B is selected
C2_Witness ==
    /\ Len(probes) = 2
    /\ probes[1].resp.status_code = 404
    /\ Qualifies(probes[2].resp)
    /\ working_url = 2
    /\ returns # <<>> /\ returns[Len(returns)].url = 2

\* C3: an exception while one candidate is probed does not end resolution:
\* the candidate is not selected and the next candidate is probed, until one
\* qualifies or the list is exhausted.
C3_ProbeErrorNotFatal ==
    \A j \in 1..Len(probes) :
        probes[j].resp.exc # "none" =>
            /\ working_url # probes[j].url
            /\ IF j < NumUrls
               THEN \/ Len(probes) > j /\ probes[j + 1].url = j + 1
                    \/ Len(probes) = j /\ pc = "probing" /\ url_i = j + 1
               ELSE /\ pc = "idle"
                    /\ returns[Len(returns)].url = None

\* a candidate raised and a later candidate was selected
C3_Witness ==
    \E j \in 1..Len(probes) :
        /\ probes[j].resp.exc # "none"
        /\ Len(probes) > j
        /\ working_url = Len(probes)

\* the submissions of the request history, as positions
Submissions == {i \in 1..Len(requests) : requests[i].kind = "submit"}

\* the 200 response of a submission parses to a record
YieldsRecord(doc) == ParsedResults[doc].error = ""

\* C4: when no candidate passes validation, fetch_case_data returns the
\* "not accessible" outcome, whose trail holds exactly one probe entry per
\* candidate in list order, and neither the search page is loaded nor a
\* submission issued.
C4_UnreachableOutcome ==
    (/\ pc \notin {"idle", "probing"}
     /\ \A j \in 1..Len(probes) : probes[j].resp \notin Accepted) =>
        /\ pc = "done"
        /\ result.error = ErrUnreachable
        /\ "debug_info" \in result.keys
        /\ Len(result.debug_info.tested_urls) = NumUrls
        /\ \A i \in 1..NumUrls : result.debug_info.tested_urls[i].url = i
        /\ \A i \in 1..Len(requests) : requests[i].kind = "probe"

\* every candidate was probed, none passed, and one of them raised
C4_Witness ==
    /\ pc = "done"
    /\ Len(probes) = NumUrls
    /\ \A j \in 1..Len(probes) : ~Qualifies(probes[j].resp)
    /\ \E j \in 1..Len(probes) : probes[j].resp.exc # "none"
    /\ result.error = ErrUnreachable

\* C5 as stated: a loaded document with a CAPTCHA image reference is reported
\* as blocked with kind 'image', and no submission follows.
C5_ImageKindReported ==
    \A i \in 1..Len(requests) :
        (/\ requests[i].kind = "load"
         /\ requests[i].ok
         /\ "image" \in requests[i].doc.selectors) =>
            /\ result.captcha_info.has_captcha
            /\ result.captcha_info.captcha_type = "image"
            /\ Submissions = {}

\* the first entry of captcha_indicators that matches the document
FirstKind(doc) ==
    captcha_indicators[CHOOSE i \in 1..Len(captcha_indicators) :
        /\ captcha_indicators[i] \in doc.selectors
        /\ \A j \in 1..(i - 1) : captcha_indicators[j] \notin doc.selectors]

\* C6 as stated: the reported kind is that of the first matching structural
\* signal in the fixed order, and 'text_based' only when none matched.
C6_FirstKindReported ==
    \A i \in 1..Len(requests) :
        (/\ requests[i].kind = "load"
         /\ requests[i].ok
         /\ result.captcha_info.has_captcha) =>
            result.captcha_info.captcha_type =
                IF requests[i].doc.selectors # {}
                THEN FirstKind(requests[i].doc) ELSE "text_based"

\* C7 as stated: a 200 response of a submission that contains a verification
\* challenge ends the query as obstructed, with no further request.
C7_ObstructedResponseStops ==
    \A i \in Submissions :
        (requests[i].ok /\ _check_captcha(requests[i].doc).has_captcha) =>
            /\ i = Len(requests)
            /\ pc = "done"
            /\ result.error = ErrCaptcha

\* (parameter set, method/path) of submission i comes before that of j
Before(i, j) ==
    \/ requests[i].strategy < requests[j].strategy
    \/ /\ requests[i].strategy = requests[j].strategy
       /\ requests[i].mi < requests[j].mi

\* C8: the submissions are issued in (parameter set, method/path) order; the
\* first whose response yields a record ends the query: the record is
\* returned without an error and no request follows it.
C8_FirstSuccessWins ==
    /\ \A i, j \in Submissions : i < j => Before(i, j)
    /\ \A i \in Submissions :
         (requests[i].ok /\ YieldsRecord(requests[i].doc)) =>
            /\ i = Len(requests)
            /\ pc = "done"
            /\ "error" \notin result.keys
            /\ result.error = ""
            /\ result.record = ParsedResults[requests[i].doc].record
    /\ (pc = "done" /\ "error" \notin result.keys) =>
         /\ Len(requests) \in Submissions
         /\ requests[Len(requests)].ok
         /\ YieldsRecord(requests[Len(requests)].doc)

\* a record found by the second parameter set, after a failed request and a
\* not-found response
C8_Witness ==
    /\ pc = "done"
    /\ "error" \notin result.keys
    /\ result.record.petitioner = <<"Ramesh Kumar">>
    /\ requests[Len(requests)].strategy = 2
    /\ requests[Len(requests)].mi = 2
    /\ \E i \in Submissions : requests[i].ok /\ ~YieldsRecord(requests[i].doc)

\* C9 as stated: after a 200 response that yields only not-found, the next
\* method/path combination of the same parameter set is tried, and the next
\* parameter set only after all five combinations.
C9_NextMethodAfterNotFound ==
    \A i \in Submissions :
        i < Len(requests) =>
            /\ (requests[i].ok /\ requests[i].mi < Len(methods_to_try)) =>
                  /\ requests[i + 1].strategy = requests[i].strategy
                  /\ requests[i + 1].mi = requests[i].mi + 1
            /\ requests[i + 1].strategy # requests[i].strategy =>
                  requests[i].mi = Len(methods_to_try)

\* C9 amended: after a 200 response that yields only not-found, the remaining
\* method/path combinations of that parameter set are skipped and the first
\* combination of the next parameter set is tried; the next combination of
\* the same parameter set is tried only after a non-200 response or an
\* exception, and after the fifth such failure the next parameter set.
C9_NextStrategyAfterNotFound ==
    /\ \A i \in Submissions :
        i < Len(requests) =>
            IF requests[i].ok \/ requests[i].mi = Len(methods_to_try)
            THEN /\ requests[i + 1].strategy = requests[i].strategy + 1
                 /\ requests[i + 1].mi = 1
            ELSE /\ requests[i + 1].strategy = requests[i].strategy
                 /\ requests[i + 1].mi = requests[i].mi + 1
    /\ (pc = "submit" /\ Len(requests) \in Submissions) =>
         IF requests[Len(requests)].ok
                \/ requests[Len(requests)].mi = Len(methods_to_try)
         THEN idx = requests[Len(requests)].strategy + 1 /\ mi = 1
         ELSE idx = requests[Len(requests)].strategy
                /\ mi = requests[Len(requests)].mi + 1

\* a not-found response to the first combination of the first parameter set,
\* followed by a request
C9_Witness ==
    \E i \in Submissions :
        /\ i < Len(requests)
        /\ requests[i].ok
        /\ requests[i].mi = 1
        /\ requests[i + 1].strategy = 2

\* C10: when no submission yields a record, whatever the failures are, the
\* loop goes on until every parameter set was visited in order, and the
\* outcome is the not-found dict with strategies_attempted = the number of
\* parameter sets.
C10_ExhaustionNotFound ==
    (/\ Submissions # {}
     /\ \A i \in Submissions : ~(requests[i].ok /\ YieldsRecord(requests[i].doc))) =>
        \/ pc = "submit"
        \/ /\ pc = "done"
           /\ result.error = ErrNotFound
           /\ "strategies_attempted" \in result.keys
           /\ result.strategies_attempted = Len(form_data)
           /\ {requests[i].strategy : i \in Submissions} = 1..Len(form_data)
           /\ \A i, j \in Submissions :
                i < j => requests[i].strategy <= requests[j].strategy

\* exhaustion after failed requests and a not-found response
C10_Witness ==
    /\ pc = "done"
    /\ result.error = ErrNotFound
    /\ "strategies_attempted" \in result.keys
    /\ \E i \in Submissions : ~requests[i].ok /\ requests[i].mi = Len(methods_to_try)
    /\ \E i \in Submissions : requests[i].ok /\ requests[i].doc = NotFoundDoc

\* the visible text holds a configured not-found phrase, in any letter case
HasNotFoundPhrase(doc) ==
    \E p \in doc.text : \E i \in 1..Len(error_indicators) :
        error_indicators[i] \in Substrings(Lower(p))

\* the structured extractor would find a party in the document
HasPartyRow(doc) ==
    \E i \in 1..Len(doc.rows) :
        doc.rows[i][1] \in {"Petitioner", "Respondent"} /\ doc.rows[i][2] # ""

\* C11: parsing a response whose visible text holds a not-found phrase, in
\* any letter case, returns the not-found dict of the phrase check, before
\* the structured extractor and the fallback run, and never a record, even
\* when the document holds extractable case fields.
C11_NotFoundPhraseWins ==
    (ret.fn = "_parse_response" /\ HasNotFoundPhrase(arg.doc)) =>
        /\ ret.value.error = ErrNotFound
        /\ ret.value.keys = {"error", "message", "found_error_indicator"}
        /\ ret.value.record = NoRecord

\* an upper-case phrase in a document that also holds a petitioner row
C11_Witness ==
    /\ ret.fn = "_parse_response"
    /\ "RECORD NOT FOUND" \in arg.doc.text
    /\ HasPartyRow(arg.doc)
    /\ ret.value.error = ErrNotFound

\* a record without parties, dates, status, stage, judge and orders
EmptyRecord(cd) ==
    /\ cd.petitioner = <<>> /\ cd.respondent = <<>>
    /\ cd.filing_date = NoDate /\ cd.next_hearing_date = NoDate
    /\ cd.status = "None" /\ cd.stage = "None" /\ cd.judge = "None"
    /\ cd.orders = <<>>

\* the documents for which the structured extractor yields such a record
NothingToExtract ==
    {doc \in ResultDocs :
        ~doc.malformed /\ EmptyRecord(_extract_case_info(doc, Query))}

\* the trail reports a failed attempt of this parameter set
ReportedFailed(strategy) ==
    \E k \in 1..Len(debug_info.submission_attempts) :
        /\ debug_info.submission_attempts[k].strategy = strategy
        /\ debug_info.submission_attempts[k].result = "failed"

\* C12: no query returns a record without parties, dates, status, stage,
\* judge and orders; when the structured extractor yields such a record for
\* a response, the record returned for it is the one of the heuristic
\* fallback, or the attempt is reported as failed.
C12_ValidityGate ==
    /\ (pc = "done" /\ "error" \notin result.keys) => ~EmptyRecord(result.record)
    /\ \A i \in Submissions :
         (requests[i].ok /\ requests[i].doc \in NothingToExtract) =>
            IF i = Len(requests) /\ pc = "done" /\ "error" \notin result.keys
            THEN "note" \in result.keys
            ELSE ReportedFailed(requests[i].strategy)

\* one response without any field failed its attempt, a later one without
\* any field was answered by the fallback
C12_Witness ==
    /\ pc = "done"
    /\ "note" \in result.keys
    /\ requests[Len(requests)].doc = MentionDoc
    /\ \E i \in Submissions : requests[i].doc = ChallengeDoc

\* the order list a call returned
ReturnedOrders ==
    IF ret.fn = "_extract_orders" THEN ret.value
    ELSE IF ret.fn = "_extract_case_info" THEN ret.value.orders
    ELSE <<>>

\* C13 as stated: no two order entries of an extracted record share a
\* description, whichever source they came from; two document links with
\* the same text, or without text, yield one entry.
C13_UniqueDescriptions ==
    \A i, j \in 1..Len(ReturnedOrders) :
        i # j => ReturnedOrders[i].description # ReturnedOrders[j].description

\* the description line 789-791 gives an anchor
LinkDescription(link) ==
    IF link.text = "" THEN "Wardha District Court Document" ELSE link.text

\* C14: the order list has at most 10 entries: the first 10 of the orders
\* discovered, document links first in document order, then table rows,
\* then container items.
C14_FirstTenInOrder ==
    ret.fn = "_extract_orders" =>
        LET n == Len(MergedOrders(arg.doc))
            kept == IF n < 10 THEN n ELSE 10
        IN  /\ Len(ret.value) = kept
            /\ \A k \in 1..kept : ret.value[k] = MergedOrders(arg.doc)[k]
            /\ \A k \in 1..kept :
                 k <= Len(arg.doc.links) =>
                    ret.value[k].description = LinkDescription(arg.doc.links[k])
            /\ \A k \in 1..kept :
                 k > Len(arg.doc.links) => ret.value[k].pdf_link[2] # "/orders/1.pdf"

\* eleven document links and a table row with an order: ten entries are kept
C14_Witness ==
    /\ ret.fn = "_extract_orders"
    /\ Len(arg.doc.links) = 11
    /\ arg.doc.links[1].text = "Order 1"
    /\ Len(arg.doc.rows) = 3
    /\ Len(ret.value) = 10
    /\ ret.value[10].description = "Order 10"

\* the labels that name a petitioner, and those that name a respondent
PetitionerLabels == {"Petitioner", "Applicant", "Plaintiff"}
RespondentLabels == {"Respondent", "Defendant"}

\* the non-empty values of the rows with one of the labels, in first-seen
\* order, later duplicates dropped
RECURSIVE PartiesOf(_, _, _)
PartiesOf(rows, labels, n) ==
    IF n = 0 THEN <<>>
    ELSE LET before == PartiesOf(rows, labels, n - 1)
         IN  IF /\ rows[n][1] \in labels
                /\ rows[n][2] # ""
                /\ \A k \in 1..Len(before) : before[k] # rows[n][2]
             THEN Append(before, rows[n][2]) ELSE before

RealDate(day, month, year) ==
    /\ month \in 1..12
    /\ day >= 1
    /\ day <= (IF month = 2
               THEN (IF (year % 4 = 0 /\ year % 100 # 0) \/ year % 400 = 0
                     THEN 29 ELSE 28)
               ELSE IF month \in {4, 6, 9, 11} THEN 30 ELSE 31)

\* YYYY-MM-DD
Canonical(day, month, year) ==
    FourDigits(year) \o <<"-">> \o TwoDigits(month) \o <<"-">> \o TwoDigits(day)

\* the layout writes the year with two digits, and the year first
TwoDigitYear(k) == \E j \in 1..Len(date_formats[k]) : date_formats[k][j] = "%y"
YearFirst(k) == date_formats[k][1] \in {"%Y", "%y"}

\* the string is a real date of the years 1950 to 2030 written in a layout;
\* two digits stand for a year only where 00-29 and 69-99 leave no doubt
DenotesDate(a) ==
    /\ a.layout # 0
    /\ RealDate(a.day, a.month, a.year)
    /\ a.year >= 1950 /\ a.year <= 2030
    /\ TwoDigitYear(a.layout) => (a.year \in 1969..1999 \/ a.year \in 2000..2029)

\* C16 as stated: every real date of the years 1950 to 2030 written in a
\* supported layout, day-first or year-first, is normalised to that date.
C16_EveryLayoutRoundTrips ==
    (ret.fn = "_parse_date" /\ DenotesDate(arg)) =>
        ret.value = Canonical(arg.day, arg.month, arg.year)

\* a year-first string with a two-digit year that is a date when read
\* day-first: the year digits as the day, the day digits as the year
ReadsDayFirst(a) ==
    /\ TwoDigitYear(a.layout) /\ YearFirst(a.layout)
    /\ a.padded \/ a.day >= 10
    /\ RealDate(a.year % 100, a.month, 2000 + a.day)
    /\ a.day <= 30

\* C16 amended: a real date of the years 1950 to 2030 written with a
\* four-digit year in a supported layout, or day-first with a two-digit year,
\* is normalised to that date; a year-first string with a two-digit year is
\* normalised to the date it is when read day-first, whenever that reading is
\* a real date of the years 1950 to 2030, and to its own date otherwise.
C16_FirstLayoutWins ==
    (ret.fn = "_parse_date" /\ DenotesDate(arg)) =>
        ret.value = IF ReadsDayFirst(arg)
                    THEN Canonical(arg.year % 100, arg.month, 2000 + arg.day)
                    ELSE Canonical(arg.day, arg.month, arg.year)

\* '15-03-2023' gives '2023-03-15'
C16_Witness ==
    /\ ret.fn = "_parse_date"
    /\ arg.str = <<"1", "5", "-", "0", "3", "-", "2", "0", "2", "3">>
    /\ ret.value = <<"2", "0", "2", "3", "-", "0", "3", "-", "1", "5">>

\* the string is no date: not written in a layout, or written with a
\* four-digit year for a day the month does not have or a year outside
\* 1950 to 2030
NoDateString(a) ==
    \/ a.layout = 0
    \/ /\ ~TwoDigitYear(a.layout)
       /\ ~RealDate(a.day, a.month, a.year) \/ a.year < 1950 \/ a.year > 2030

\* C17 as stated: a string that is no parseable date, the empty string, a
\* blank string and a string with blanks around it included, is returned
\* unchanged.
C17_UnparsableUnchanged ==
    (ret.fn = "_parse_date" /\ NoDateString(arg)) => ret.value = arg.str

\* C18 as stated: in every generated parameter set a key of the naming
\* scheme keeps the scheme's value even when the page has a hidden field of
\* that name; the hidden fields add the keys the scheme does not define.
C18_SchemeKeysKept ==
    ret.fn = "_prepare_form_data" =>
        \A i \in 1..Len(ret.value) :
            /\ \A k \in DOMAIN form_variations(Query)[i] :
                  ret.value[i][k] = form_variations(Query)[i][k]
            /\ \A h \in 1..Len(arg.doc.hidden) :
                  arg.doc.hidden[h][1] \in DOMAIN ret.value[i]

\* the query ended with a record
Found == pc = "done" /\ "error" \notin result.keys

\* C19: every Found outcome carries the trail of its query: the resolved
\* URL, the number of parameter sets generated, and the submission attempts
\* up to and including the successful one, in order.
C19_FoundCarriesTrail ==
    Found =>
        LET trail == result.debug_info
            attempts == trail.submission_attempts
            last == requests[Len(requests)]
        IN  /\ "debug_info" \in result.keys
            /\ {"working_url", "form_strategies", "submission_attempts"}
                    \subseteq trail.keys
            /\ trail.working_url = probes[Len(probes)].url
            /\ trail.working_url # None
            /\ trail.form_strategies = Len(form_data)
            /\ {attempts[j].strategy : j \in 1..Len(attempts)} = 1..last.strategy
            /\ \A j, k \in 1..Len(attempts) :
                    j < k => attempts[j].strategy <= attempts[k].strategy
            /\ \A j \in 1..Len(attempts) :
                    IF attempts[j].strategy = last.strategy
                    THEN /\ attempts[j].result = "success"
                         /\ attempts[j].method = methods_to_try[last.mi].method
                         /\ attempts[j].endpoint = methods_to_try[last.mi].endpoint
                    ELSE attempts[j].result = "failed"

\* a record found by the second parameter set, on the second candidate URL
C19_Witness ==
    /\ Found
    /\ requests[Len(requests)].strategy = 2
    /\ result.debug_info.working_url = 2
    /\ result.debug_info.submission_attempts[1].result = "failed"

\* C20: every query ends with an outcome; an exception nothing else handles
\* ends it with the "unexpected error" outcome, which carries the exception
\* text and the trail gathered up to the failure; a response that cannot be
\* parsed fails its attempt only.
C20_NothingEscapes ==
    /\ pc = "done" =>
          \/ "error" \in result.keys /\ result.error # ""
          \/ "case_data" \in result.keys /\ result.error = ""
    /\ (pc = "done" /\ result.error = ErrUnexpected) =>
          /\ {"details", "debug_info"} \subseteq result.keys
          /\ result.debug_info = debug_info
          /\ Len(result.debug_info.tested_urls) = Len(probes)
          /\ result.debug_info.working_url = probes[Len(probes)].url
          /\ result.debug_info.steps # <<>>
          /\ requests[Len(requests)].doc.malformed =>
                Len(result.debug_info.steps) = 2
    /\ \A i \in 1..Len(requests) :
          (requests[i].ok /\ requests[i].doc.malformed) =>
             IF requests[i].kind = "load"
             THEN /\ i = Len(requests)
                  /\ pc = "done"
                  /\ result.error = ErrUnexpected
             ELSE /\ ReportedFailed(requests[i].strategy)
                  /\ pc = "done" => result.error = ErrNotFound \/ Found

\* the search page cannot be parsed, after a candidate URL raised
C20_Witness ==
    /\ pc = "done"
    /\ result.error = ErrUnexpected
    /\ requests[Len(requests)].doc.malformed
    /\ \E j \in 1..Len(probes) : probes[j].resp.exc # "none"
    /\ Len(result.debug_info.tested_urls) = 2

\* the positions of the request history that hold such a request
RequestsOf(kind, url, strategy, m) ==
    {i \in 1..Len(requests) :
        /\ requests[i].kind = kind /\ requests[i].url = url
        /\ requests[i].strategy = strategy /\ requests[i].mi = m}

\* no candidate is probed twice, the search page is loaded once, and no pair
\* of a parameter set and a method/path is requested twice
NothingRetried ==
    /\ \A u \in 1..NumUrls : Cardinality(RequestsOf("probe", u, 0, 0)) <= 1
    /\ Cardinality({i \in 1..Len(requests) : requests[i].kind = "load"}) <= 1
    /\ \A s \in 1..NumStrategies, m \in 1..Len(methods_to_try) :
            Cardinality({i \in 1..Len(requests) :
                /\ requests[i].kind = "submit"
                /\ requests[i].strategy = s /\ requests[i].mi = m}) <= 1
    /\ Len(requests) <= NumUrls + 1 + NumStrategies * Len(methods_to_try)

WithScraper == {h \in 1..NumHandlers : handler[h].scraper # 0}

\* C22: requests handled at once never share engine state: each has an
\* instance of its own, whose cached endpoint, session, last raw response
\* and trail no other request reads or writes, so what a request gets back
\* is its own trail and its own raw response.
C22_NoSharedEngineState ==
    \A h \in WithScraper :
        /\ \A g \in WithScraper \ {h} : handler[g].scraper # handler[h].scraper
        /\ scrapers[handler[h].scraper].used_by \subseteq {h}
        /\ scrapers[handler[h].scraper].session \subseteq {h}
        /\ scrapers[handler[h].scraper].debug_info \in {0, h}
        /\ scrapers[handler[h].scraper].last_raw_response \in {0, h}
        /\ handler[h].case_data.debug_info \in {0, h}
        /\ handler[h].raw_response \in {0, h}

\* two queries under way at once, one of them with its response
C22_Witness ==
    \E h, g \in WithScraper :
        /\ h # g
        /\ handler[h].pc = "return" /\ handler[h].kind = "found"
        /\ handler[g].pc = "requests"
        /\ scrapers[handler[h].scraper].working_url # None

\* digits, '/' and '-' only, and a digit among them
GoodNumber(n) ==
    /\ n # <<>>
    /\ \A i \in 1..Len(n) :
        n[i] \in {"0", "1", "2", "3", "4", "5", "6", "7", "8", "9", "/", "-"}
    /\ \E i \in 1..Len(n) :
        n[i] \in {"0", "1", "2", "3", "4", "5", "6", "7", "8", "9"}

\* a validated query
ValidQuery(q) ==
    /\ q.case_type # <<>>
    /\ GoodNumber(q.case_number)
    /\ q.filing_year \in 1950..current_year

\* the query a form states, its fields without the blanks around them
Stated(form) ==
    [case_type |-> Strip(form.case_type),
     case_number |-> Strip(form.case_number), filing_year |-> form.year]

\* C23: fetch_case_data is called only with a validated query, the one the
\* form states; a request with any other form ends with a validation error
\* and without a scraper or a call of the engine.
C23_OnlyValidatedQueries ==
    \A h \in 1..NumHandlers :
        /\ handler[h].fetched # NoQuery =>
            /\ ValidQuery(handler[h].fetched)
            /\ handler[h].fetched = Stated(handler[h].form)
        /\ (handler[h].pc # "absent" /\ ~ValidQuery(Stated(handler[h].form))) =>
            /\ handler[h].fetched = NoQuery
            /\ handler[h].scraper = 0
            /\ handler[h].pc \in {"received", "done"}
            /\ handler[h].pc = "done" =>
                    handler[h].status = "validation_error" /\ handler[h].error # ""

\* the engine was called with a year that the form wrote with blanks
C23_Witness ==
    /\ handler[1].pc = "done"
    /\ handler[1].fetched.filing_year = 2023
    /\ handler[1].form.filing_year = <<" ", "2", "0", "2", "3", " ">>
    /\ handler[1].fetched.case_number = <<"1", "2", "/", "3">>

\* a row with a value whose label holds a hearing keyword and 'date'
HearingDateRow(row) ==
    /\ row[2] # ""
    /\ \E k \in {"next", "hearing", "list"} : k \in Substrings(Lower(row[1]))
    /\ "date" \in Substrings(Lower(row[1]))

\* C24: when the last row of the table is such a row, here 'Next Hearing
\* Date' with the value '01.04.2023', the record's next hearing date is that
\* date, normalized, and its filing date is what the rows before it gave.
C24_HearingDateRow ==
    (/\ ret.fn = "_extract_case_info"
     /\ ~arg.doc.malformed
     /\ arg.doc.rows # <<>>
     /\ HearingDateRow(arg.doc.rows[Len(arg.doc.rows)])) =>
        /\ ret.value.next_hearing_date =
                <<"2", "0", "2", "3", "-", "0", "4", "-", "0", "1">>
        /\ ret.value.filing_date =
                _extract_case_info(
                    [arg.doc EXCEPT !.rows = SubSeq(@, 1, Len(@) - 1)],
                    Query).filing_date

\* the search page was loaded and holds no form
LoadedWithoutForm ==
    \E i \in 1..Len(requests) :
        /\ requests[i].kind = "load" /\ requests[i].ok
        /\ requests[i].doc.forms = 0

\* C25: when the loaded search page holds no form, no submission request is
\* issued and the query ends with the 'unable to find search form' outcome.
C25_MissingFormStops ==
    LoadedWithoutForm =>
        /\ \A i \in 1..Len(requests) : requests[i].kind # "submit"
        /\ pc = "done" => result.error = ErrNoForm

\* _parse_response returned a record for the document
ParsedRecord == ret.fn = "_parse_response" /\ "case_data" \in ret.value.keys

\* C26: the heuristic fallback answers only for a document whose structured
\* record failed the validity gate; every record of the fallback carries the
\* manual-verification note and no record of structured extraction does.
C26_TwoStageExtraction ==
    ParsedRecord =>
        IF _is_valid_case_data(_extract_case_info(arg.doc, Query))
        THEN /\ ret.value.record = _extract_case_info(arg.doc, Query)
             /\ "note" \notin ret.value.keys
             /\ ret.value.record.note = "None"
        ELSE /\ ret.value.record = _alternative_parsing(arg.doc, Query)
             /\ "note" \in ret.value.keys
             /\ ret.value.record.note # "None"

\* the fallback answered for a page that names the case without a table
C26_Witness ==
    /\ ParsedRecord
    /\ arg.doc = MentionDoc
    /\ "note" \in ret.value.keys

\* the page load of the query, if a request for it was issued
PageLoads == {i \in 1..Len(requests) : requests[i].kind = "load"}

\* the search pages that parse and show no CAPTCHA
Unobstructed ==
    {d \in SearchPages : ~d.malformed /\ ~_check_captcha(d).has_captcha}

\* the steps of the query so far came in the order probe, load, submit, the
\* last probe selected an endpoint, the load passed HasStatus and showed no
\* CAPTCHA
StepsInOrder(HasStatus(_)) ==
    /\ \A i \in PageLoads :
         /\ working_url # None
         /\ probes # <<>>
         /\ probes[Len(probes)].resp \in Accepted
         /\ requests[i].url = working_url
         /\ \A j \in 1..Len(requests) :
              (requests[j].kind = "probe") <=> j < i
    /\ Submissions # {} =>
         \E i \in PageLoads :
            /\ HasStatus(requests[i])
            /\ requests[i].doc \in Unobstructed
            /\ \A j \in Submissions : i < j
    /\ (pc = "done" /\ result.error \in
            {ErrUnreachable, ErrNetwork, ErrPageNotFound, ErrHttp,
             ErrUnexpected, ErrCaptcha}) => Submissions = {}

StatusOk(request) == request.ok
StatusNoError(request) == 0 < request.status_code /\ request.status_code < 400

\* C27 (as stated): no submission is issued before an endpoint was resolved,
\* the search page was loaded with status 200 and showed no CAPTCHA; a query
\* that fails at one of these steps ends without a submission.
C27_StepsInOrder200 == StepsInOrder(StatusOk)

\* C27 (amended): the same, with the search page loaded without an HTTP
\* error status, that is with any status below 400.
C27_StepsInOrder == StepsInOrder(StatusNoError)

\* submissions were sent after the page load was answered with status 203
C27_Witness ==
    /\ Submissions # {}
    /\ \E i \in PageLoads : requests[i].status_code = 203

\* the string has the form YYYY-MM-DD
IsoForm(s) ==
    /\ Len(s) = 10
    /\ s[5] = "-" /\ s[8] = "-"
    /\ \A i \in {1, 2, 3, 4, 6, 7, 9, 10} : IsDigit(s[i])

\* C28: a result of _parse_date of the form YYYY-MM-DD denotes an existing
\* calendar date whose year lies in 1950..2030, whether it comes from the
\* layout list, from the digit-run fallback or is the input given back.
C28_CanonicalIsRealDate ==
    (ret.fn = "_parse_date" /\ IsoForm(ret.value)) =>
        /\ RealDate(IntOf(SubSeq(ret.value, 9, 10)),
                    IntOf(SubSeq(ret.value, 6, 7)),
                    IntOf(SubSeq(ret.value, 1, 4)))
        /\ IntOf(SubSeq(ret.value, 1, 4)) \in 1950..2030

\* the parameter sets for which a request was sent
Attempted == {requests[i].strategy : i \in Submissions}

\* C29: when the submission loop has returned, with a record or after the
\* last parameter set, submission_attempts holds one entry per attempted
\* parameter set, in ascending strategy index and none of them twice.
C29_OneEntryPerAttempt ==
    (pc = "done" /\ Submissions # {}) =>
        /\ Len(debug_info.submission_attempts) = Cardinality(Attempted)
        /\ \A k \in 1..Len(debug_info.submission_attempts) :
              debug_info.submission_attempts[k].strategy = k

\* C30: every outcome fetch_case_data returns, of every kind, carries the
\* diagnostic trail debug_info of the query.
C30_EveryOutcomeCarriesTrail ==
    pc = "done" =>
        /\ "debug_info" \in result.keys
        /\ result.debug_info = debug_info

====
